---- MODULE Spec2Model ----
(***************************************************************************)
(* Model of the nado composition core: the Orchestrator's per-bar loop     *)
(* (agents/orchestrator.py), the PM validator (agents/pm_agent.py), the    *)
(* Musician's candidate generator (agents/musician_agent.py) and the       *)
(* Researcher's evaluator (agents/researcher_agent.py).                    *)
(*                                                                         *)
(* Floats: ratios are kept as exact fractions [n, d]; the one irrational   *)
(* quantity (the normalised Shannon entropy) and the scalar score are kept *)
(* in thousandths, rounded down.                                            *)
(***************************************************************************)
EXTENDS Integers, Sequences, FiniteSets, TLC

VARIABLES
    constraints,          \* self.constraints (ConstraintsV1)
    use_llm,              \* MusicianAgent.llm is not None
    resolution,           \* score.resolution
    key,                  \* score.metadata.key
    score_tracks,         \* ids of score.tracks
    length_bars,          \* compose(length_bars=...)
    num_variants,         \* compose(num_variants=...) / compose_window(num_variants=...)
    pc,                   \* position of the running call
    bar_index,            \* loop variable of compose / argument of compose_window
    hints,                \* compose's local `hints`
    score_events,         \* session.score.events
    iterations,           \* session.iterations
    total_events,         \* session.total_events
    validation_passes,    \* session.validation_passes
    validation_failures,  \* session.validation_failures
    proposal,             \* _compose_bar's local `proposal`
    critic_report,        \* _compose_bar's local `critic_report`
    processed_events,     \* _compose_bar's local `processed_events`
    validation,           \* _compose_bar's local `validation`
    corrected_events,     \* _compose_bar's local `corrected_events`
    musician_calls,       \* history: the arguments of every compose_window call
    critic_hints,         \* history: the hint list of every evaluate_proposal call
    llm_response,         \* what the external generator answered in the running call
    proposal2,            \* result of a repeated compose_window call
    event_velocity,       \* the `event.velocity` handed to quantize_velocity
    quantized_velocity,   \* _apply_passes' local `quantized_velocity`
    self_messages,        \* ComposerAgent.messages
    current_score,        \* ComposerAgent.current_score
    messages_to_send,     \* run's local `messages_to_send`, without the system message
    content,              \* run's local `content` / _try_extract_score's parameter
    llm_invocations,      \* history: number of llm_with_tools.invoke calls of the run
    tool_runs,            \* history: the tool calls handed to _execute_tool by the run,
                          \* or the tool functions called by the pipeline, in order
    run_responses,        \* history: the responses of the LLM in the running run
    run_result,           \* what run returned or raised
    tool_args,            \* the arguments of a called tool
    tool_result           \* what the called tool returned

vars == << constraints, use_llm, resolution, key, score_tracks, length_bars, num_variants, pc,
           bar_index, hints, score_events, iterations, total_events,
           validation_passes, validation_failures, proposal, critic_report,
           processed_events, validation, corrected_events, musician_calls,
           critic_hints, llm_response, proposal2, event_velocity, quantized_velocity,
           self_messages, current_score, messages_to_send, content, llm_invocations,
           tool_runs, run_responses, run_result, tool_args, tool_result >>

\* the variables of the calls made outside the Orchestrator's loop
Standalone == << event_velocity, quantized_velocity, self_messages, current_score,
                 messages_to_send, content, llm_invocations, tool_runs,
                 run_responses, run_result, tool_args, tool_result >>

(***************************************************************************)
(* Bounds of the model.                                                    *)
(***************************************************************************)
MaxBars == 2
MaxVariants == 2

(***************************************************************************)
(* models/constraints.py                                                   *)
(***************************************************************************)
NoIndex == -1

default_8bit ==
    [ required_tracks    |-> << "pulse1", "triangle", "noise" >>,
      monophonic_tracks  |-> << "pulse1", "pulse2", "triangle", "noise" >>,
      max_events_per_bar |-> 32,
      pitch_ranges       |-> [ pulse1   |-> [min |-> 48, max |-> 96],
                               pulse2   |-> [min |-> 48, max |-> 96],
                               triangle |-> [min |-> 24, max |-> 60],
                               noise    |-> [min |-> 0,  max |-> 127] ],
      velocity_levels    |-> << 64, 100, 127 >>,
      target_density_per_bar |-> 8,
      prefer_step_grid   |-> 4 ]

Range(s) == { s[i] : i \in 1..Len(s) }

Max2(a, b) == IF a >= b THEN a ELSE b
Min2(a, b) == IF a <= b THEN a ELSE b
Abs(a) == IF a < 0 THEN -a ELSE a

(***************************************************************************)
(* models/score.py                                                         *)
(***************************************************************************)
NoteEvent(track, pitch, velocity, start_step, dur_steps) ==
    [ track |-> track, pitch |-> pitch, velocity |-> velocity,
      start_step |-> start_step, dur_steps |-> dur_steps ]

end_step(e) == e.start_step + e.dur_steps

steps_per_bar(res) == res.steps_per_beat * res.beats_per_bar

\* Field(...) constraints of NoteEvent; a missing key fails too
NoteEventFields == { "track", "pitch", "velocity", "start_step", "dur_steps" }

NoteEventValid(raw) ==
    /\ NoteEventFields \subseteq DOMAIN raw
    /\ raw.pitch >= 0 /\ raw.pitch <= 127
    /\ raw.velocity >= 1 /\ raw.velocity <= 127
    /\ raw.start_step >= 0
    /\ raw.dur_steps >= 1

\* the ids of the tracks ScoreV1.create_empty defines
create_empty_tracks == << "pulse1", "pulse2", "triangle", "noise" >>

get_events_in_window(events, ws, we) ==
    SelectSeq(events, LAMBDA e : e.start_step >= ws /\ e.start_step < we)

\* sorted(events, key=lambda e: e.start_step): stable
RECURSIVE InsertByStart(_, _)
InsertByStart(sorted, e) ==
    IF sorted = << >> THEN << e >>
    ELSE IF sorted[Len(sorted)].start_step <= e.start_step
         THEN Append(sorted, e)
         ELSE Append(InsertByStart(SubSeq(sorted, 1, Len(sorted) - 1), e),
                     sorted[Len(sorted)])

RECURSIVE SortByStart(_)
SortByStart(events) ==
    IF events = << >> THEN << >>
    ELSE InsertByStart(SortByStart(SubSeq(events, 1, Len(events) - 1)),
                       events[Len(events)])

\* the keys of the by_track dict, in insertion order
RECURSIVE TrackOrder(_)
TrackOrder(events) ==
    IF events = << >> THEN << >>
    ELSE LET init == TrackOrder(SubSeq(events, 1, Len(events) - 1))
             t    == events[Len(events)].track
         IN IF t \in Range(init) THEN init ELSE Append(init, t)

by_track(events, t) == SelectSeq(events, LAMBDA e : e.track = t)

(***************************************************************************)
(* agents/pm_agent.py                                                      *)
(***************************************************************************)
ConstraintViolation(ctype, rule, track, idx) ==
    [ constraint_type |-> ctype, rule |-> rule, track |-> track, event_index |-> idx ]

hard_violations(violations) ==
    SelectSeq(violations, LAMBDA v : v.constraint_type = "hard")

PitchOutOfRange(e) ==
    /\ e.track \in DOMAIN constraints.pitch_ranges
    /\ LET pr == constraints.pitch_ranges[e.track]
       IN e.pitch < pr.min \/ e.pitch > pr.max

\* TrackOverlaps counting events that only touch as overlapping
RECURSIVE TrackOverlaps_Touching(_, _, _)
TrackOverlaps_Touching(track_id, track_events, i) ==
    IF i >= Len(track_events) THEN << >>
    ELSE (IF end_step(track_events[i]) >= track_events[i + 1].start_step
          THEN << ConstraintViolation("hard", "monophonic", track_id, NoIndex) >>
          ELSE << >>)
         \o TrackOverlaps_Touching(track_id, track_events, i + 1)

\* the inner loop of _check_polyphony over one sorted track
RECURSIVE TrackOverlaps(_, _, _)
TrackOverlaps(track_id, track_events, i) ==
    IF i >= Len(track_events) THEN << >>
    ELSE (IF end_step(track_events[i]) > track_events[i + 1].start_step
          THEN << ConstraintViolation("hard", "monophonic", track_id, NoIndex) >>
          ELSE << >>)
         \o TrackOverlaps(track_id, track_events, i + 1)

RECURSIVE PolyphonyFrom(_, _)
PolyphonyFrom(events, k) ==
    IF k > Len(constraints.monophonic_tracks) THEN << >>
    ELSE LET track_id == constraints.monophonic_tracks[k]
         IN TrackOverlaps(track_id, SortByStart(by_track(events, track_id)), 1)
            \o PolyphonyFrom(events, k + 1)

_check_polyphony(events) == PolyphonyFrom(events, 1)

\* EventViolations without the pitch-range check
EventViolations_NoPitchCheck(e, i, window_start, window_end) ==
    (IF e.start_step < window_start \/ e.start_step >= window_end
     THEN << ConstraintViolation("hard", "window_bounds", "", i) >> ELSE << >>)
    \o (IF e.velocity \notin Range(constraints.velocity_levels)
        THEN << ConstraintViolation("soft", "velocity_levels", "", i) >> ELSE << >>)

\* the body of validate_variant's loop for the event at (0-based) index i
EventViolations(e, i, window_start, window_end) ==
    (IF e.start_step < window_start \/ e.start_step >= window_end
     THEN << ConstraintViolation("hard", "window_bounds", "", i) >> ELSE << >>)
    \o (IF PitchOutOfRange(e)
        THEN << ConstraintViolation("hard", "pitch_range", e.track, i) >> ELSE << >>)
    \o (IF e.velocity \notin Range(constraints.velocity_levels)
        THEN << ConstraintViolation("soft", "velocity_levels", "", i) >> ELSE << >>)

RECURSIVE EventLoop(_, _, _, _)
EventLoop(events, k, window_start, window_end) ==
    IF k > Len(events) THEN << >>
    ELSE EventViolations(events[k], k - 1, window_start, window_end)
         \o EventLoop(events, k + 1, window_start, window_end)

validate_variant(events, window_start, window_end) ==
    LET violations == EventLoop(events, 1, window_start, window_end)
                      \o _check_polyphony(events)
    IN [ is_valid   |-> hard_violations(violations) = << >>,
         violations |-> violations ]

\* RequiredTracksFrom reporting the required tracks that are present
RECURSIVE RequiredTracksFrom_Present(_, _)
RequiredTracksFrom_Present(track_ids, k) ==
    IF k > Len(constraints.required_tracks) THEN << >>
    ELSE (IF constraints.required_tracks[k] \in Range(track_ids)
          THEN << ConstraintViolation("hard", "required_tracks",
                                      constraints.required_tracks[k], NoIndex) >>
          ELSE << >>)
         \o RequiredTracksFrom_Present(track_ids, k + 1)

\* the required_tracks loop of validate_score
RECURSIVE RequiredTracksFrom(_, _)
RequiredTracksFrom(track_ids, k) ==
    IF k > Len(constraints.required_tracks) THEN << >>
    ELSE (IF constraints.required_tracks[k] \notin Range(track_ids)
          THEN << ConstraintViolation("hard", "required_tracks",
                                      constraints.required_tracks[k], NoIndex) >>
          ELSE << >>)
         \o RequiredTracksFrom(track_ids, k + 1)

\* the keys of events_per_bar, in insertion order
RECURSIVE BarOrder(_, _)
BarOrder(events, spb) ==
    IF events = << >> THEN << >>
    ELSE LET init == BarOrder(SubSeq(events, 1, Len(events) - 1), spb)
             b    == events[Len(events)].start_step \div spb
         IN IF b \in Range(init) THEN init ELSE Append(init, b)

\* the max_events_per_bar loop of _validate_events (the violation's bar_index
\* is not kept)
RECURSIVE MaxEventsFrom(_, _, _, _)
MaxEventsFrom(events, spb, order, k) ==
    IF k > Len(order) THEN << >>
    ELSE (IF Cardinality({ i \in 1..Len(events) : events[i].start_step \div spb = order[k] })
               > constraints.max_events_per_bar
          THEN << ConstraintViolation("hard", "max_events_per_bar", "", NoIndex) >>
          ELSE << >>)
         \o MaxEventsFrom(events, spb, order, k + 1)

\* the pitch-range loop of _validate_events
RECURSIVE ScorePitchLoop(_, _)
ScorePitchLoop(events, k) ==
    IF k > Len(events) THEN << >>
    ELSE (IF PitchOutOfRange(events[k])
          THEN << ConstraintViolation("hard", "pitch_range", events[k].track, k - 1) >>
          ELSE << >>)
         \o ScorePitchLoop(events, k + 1)

_validate_events(events, res) ==
    MaxEventsFrom(events, steps_per_bar(res), BarOrder(events, steps_per_bar(res)), 1)
    \o _check_polyphony(events)
    \o ScorePitchLoop(events, 1)

validate_score(track_ids, events, res) ==
    LET violations == RequiredTracksFrom(track_ids, 1) \o _validate_events(events, res)
    IN [ is_valid   |-> hard_violations(violations) = << >>,
         violations |-> violations ]

\* min(levels, key=lambda x: abs(x - velocity)): the first minimum
RECURSIVE NearestLevel(_, _, _)
NearestLevel(levels, velocity, k) ==
    IF k = Len(levels) THEN levels[k]
    ELSE LET rest == NearestLevel(levels, velocity, k + 1)
         IN IF Abs(levels[k] - velocity) <= Abs(rest - velocity)
            THEN levels[k] ELSE rest

\* quantize_velocity moving the velocity only half of the way to the level
quantize_velocity_Halfway(velocity) ==
    (NearestLevel(constraints.velocity_levels, velocity, 1) + velocity) \div 2

quantize_velocity(velocity) == NearestLevel(constraints.velocity_levels, velocity, 1)

(***************************************************************************)
(* agents/orchestrator.py: post-processing and auto-correction             *)
(***************************************************************************)
\* Cleaned delaying the later event instead of shortening the earlier one
RECURSIVE Cleaned_MovesLater(_, _)
Cleaned_MovesLater(cleaned, rest) ==
    IF rest = << >> THEN cleaned
    ELSE LET event == Head(rest)
         IN IF cleaned = << >> THEN Cleaned_MovesLater(<< event >>, Tail(rest))
            ELSE LET last == cleaned[Len(cleaned)]
                 IN IF event.start_step >= end_step(last)
                    THEN Cleaned_MovesLater(Append(cleaned, event), Tail(rest))
                    ELSE Cleaned_MovesLater(
                           Append(cleaned,
                                  NoteEvent(event.track, event.pitch, event.velocity,
                                            end_step(last), event.dur_steps)),
                           Tail(rest))

\* the `cleaned` loop of _resolve_overlaps over one sorted track
RECURSIVE Cleaned(_, _)
Cleaned(cleaned, rest) ==
    IF rest = << >> THEN cleaned
    ELSE LET event == Head(rest)
         IN IF cleaned = << >> THEN Cleaned(<< event >>, Tail(rest))
            ELSE LET last    == cleaned[Len(cleaned)]
                     new_dur == event.start_step - last.start_step
                 IN IF event.start_step >= end_step(last)
                    THEN Cleaned(Append(cleaned, event), Tail(rest))
                    ELSE IF new_dur > 0
                         THEN Cleaned(
                                Append([cleaned EXCEPT ![Len(cleaned)] =
                                          NoteEvent(last.track, last.pitch, last.velocity,
                                                    last.start_step, new_dur)],
                                       event),
                                Tail(rest))
                         ELSE Cleaned(Append(cleaned, event), Tail(rest))

RECURSIVE ResolveTracks(_, _, _)
ResolveTracks(events, order, k) ==
    IF k > Len(order) THEN << >>
    ELSE LET track_id     == order[k]
             track_events == by_track(events, track_id)
         IN (IF track_id \in Range(constraints.monophonic_tracks)
             THEN Cleaned(<< >>, SortByStart(track_events))
             ELSE track_events)
            \o ResolveTracks(events, order, k + 1)

_resolve_overlaps(events) == ResolveTracks(events, TrackOrder(events), 1)

\* _apply_passes without pass 1: the velocity is kept as proposed
_apply_passes_KeepsVelocity(events) ==
    _resolve_overlaps(
        [ i \in 1..Len(events) |->
            NoteEvent(events[i].track, events[i].pitch, events[i].velocity,
                      events[i].start_step, Max2(1, events[i].dur_steps)) ])

_apply_passes(events) ==
    _resolve_overlaps(
        [ i \in 1..Len(events) |->
            NoteEvent(events[i].track, events[i].pitch,
                      quantize_velocity(events[i].velocity),
                      events[i].start_step, Max2(1, events[i].dur_steps)) ])

\* ClampLoop setting every flagged pitch to the lower bound of the range
RECURSIVE ClampLoop_ToMin(_, _, _)
ClampLoop_ToMin(corrected, hard, k) ==
    IF k > Len(hard) THEN corrected
    ELSE LET violation == hard[k]
         IN IF violation.rule = "pitch_range" /\ violation.event_index # NoIndex
            THEN LET event == corrected[violation.event_index + 1]
                 IN IF event.track \in DOMAIN constraints.pitch_ranges
                    THEN LET pr == constraints.pitch_ranges[event.track]
                         IN ClampLoop_ToMin(
                              [corrected EXCEPT ![violation.event_index + 1] =
                                 NoteEvent(event.track, pr.min, event.velocity,
                                           event.start_step, event.dur_steps)],
                              hard, k + 1)
                    ELSE ClampLoop_ToMin(corrected, hard, k + 1)
            ELSE ClampLoop_ToMin(corrected, hard, k + 1)

\* the clamping loop of _auto_correct over validation.hard_violations
RECURSIVE ClampLoop(_, _, _)
ClampLoop(corrected, hard, k) ==
    IF k > Len(hard) THEN corrected
    ELSE LET violation == hard[k]
         IN IF violation.rule = "pitch_range" /\ violation.event_index # NoIndex
            THEN LET event == corrected[violation.event_index + 1]
                 IN IF event.track \in DOMAIN constraints.pitch_ranges
                    THEN LET pr == constraints.pitch_ranges[event.track]
                             new_pitch == Max2(pr.min, Min2(pr.max, event.pitch))
                         IN ClampLoop(
                              [corrected EXCEPT ![violation.event_index + 1] =
                                 NoteEvent(event.track, new_pitch, event.velocity,
                                           event.start_step, event.dur_steps)],
                              hard, k + 1)
                    ELSE ClampLoop(corrected, hard, k + 1)
            ELSE ClampLoop(corrected, hard, k + 1)

MinStart(events) ==
    CHOOSE s \in { e.start_step : e \in Range(events) } :
        \A e \in Range(events) : s <= e.start_step

MaxStart(events) ==
    CHOOSE s \in { e.start_step : e \in Range(events) } :
        \A e \in Range(events) : s >= e.start_step

\* Optional[List[NoteEvent]]: [some |-> FALSE] is None
None == [ some |-> FALSE, events |-> << >> ]
Some(events) == [ some |-> TRUE, events |-> events ]

_auto_correct(events, v) ==
    LET corrected == _resolve_overlaps(ClampLoop(events, hard_violations(v.violations), 1))
    IN IF events # << >>
       THEN LET min_step == MinStart(events)
                max_step == MaxStart(events) + 16
                re_validation == validate_variant(corrected, min_step, max_step)
            IN IF re_validation.is_valid THEN Some(corrected) ELSE None
       ELSE None

(***************************************************************************)
(* agents/musician_agent.py                                                *)
(***************************************************************************)
SCALES(k) ==
    CASE k = "C"        -> << 0, 2, 4, 5, 7, 9, 11 >>
      [] k = "Cm"       -> << 0, 2, 3, 5, 7, 8, 10 >>
      [] k = "C_penta"  -> << 0, 2, 4, 7, 9 >>
      [] k = "Cm_penta" -> << 0, 3, 5, 7, 10 >>
      [] OTHER          -> << 0, 2, 4, 7, 9 >>

BASS_PATTERNS ==
    << << 0, 4, 8, 12 >>, << 0, 8 >>, << 0, 4, 6, 8, 12, 14 >>,
       << 0, 2, 4, 6, 8, 10, 12, 14 >> >>

DRUM_PATTERNS ==
    [ kick |-> << 0, 8 >>, snare |-> << 4, 12 >>,
      hihat |-> << 0, 2, 4, 6, 8, 10, 12, 14 >> ]

\* Window with an end_step one step further
Window_OneStepLonger(bar, res) ==
    [ bar_index  |-> bar,
      start_step |-> bar * steps_per_bar(res),
      end_step   |-> bar * steps_per_bar(res) + steps_per_bar(res) + 1 ]

Window(bar, res) ==
    [ bar_index  |-> bar,
      start_step |-> bar * steps_per_bar(res),
      end_step   |-> bar * steps_per_bar(res) + steps_per_bar(res) ]

\* The process-wide random source: `tape` lists the outcomes of the successive
\* random.choice calls of one compose_window call (repeated cyclically); the
\* k-th call (from 0) on `seq` returns seq[tape value mod len(seq)].
random_choice(seq, tape, k) == seq[(tape[(k % Len(tape)) + 1] % Len(seq)) + 1]

MelodySteps(variant_index) ==
    IF variant_index = 0 THEN << 0, 4, 8, 12 >>
    ELSE IF variant_index = 1 THEN << 0, 2, 4, 6, 8, 10, 12, 14 >>
    ELSE << 0, 3, 6, 8, 11, 14 >>

\* the loop of _generate_melody from the j-th entry of `steps`; three
\* random.choice calls per note: degree, octave, velocity
RECURSIVE MelodyLoop(_, _, _, _, _, _)
MelodyLoop(window, scale, steps, j, tape, k) ==
    IF j > Len(steps) THEN << >>
    ELSE LET step == window.start_step + steps[j]
         IN IF step >= window.end_step THEN << >>
            ELSE LET degree == random_choice(scale, tape, k)
                     pitch0 == 60 + degree + random_choice(<< 0, 12 >>, tape, k + 1)
                     pitch  == Max2(48, Min2(96, pitch0))
                     dur    == Min2(4, window.end_step - step)
                 IN << NoteEvent("pulse1", pitch,
                                 random_choice(<< 64, 100, 127 >>, tape, k + 2),
                                 step, dur) >>
                    \o MelodyLoop(window, scale, steps, j + 1, tape, k + 3)

_generate_melody(window, scale, variant_index, tape, k) ==
    MelodyLoop(window, scale, MelodySteps(variant_index), 1, tape, k)

\* BassLoop with a random velocity and a random duration
RECURSIVE BassLoop_RandomShape(_, _, _, _, _, _)
BassLoop_RandomShape(window, scale, pattern, j, tape, k) ==
    IF j > Len(pattern) THEN << >>
    ELSE LET step == window.start_step + pattern[j]
         IN IF step >= window.end_step THEN << >>
            ELSE LET degree == random_choice(
                                 << scale[1], IF Len(scale) > 4 THEN scale[5] ELSE scale[1] >>,
                                 tape, k)
                     pitch  == Max2(24, Min2(60, 36 + degree))
                     dur    == Min2(random_choice(<< 4, 2 >>, tape, k), window.end_step - step)
                 IN << NoteEvent("triangle", pitch, 100, step, dur) >>
                    \o BassLoop_RandomShape(window, scale, pattern, j + 1, tape, k + 1)

\* the loop of _generate_bass; one random.choice call per note
RECURSIVE BassLoop(_, _, _, _, _, _)
BassLoop(window, scale, pattern, j, tape, k) ==
    IF j > Len(pattern) THEN << >>
    ELSE LET step == window.start_step + pattern[j]
         IN IF step >= window.end_step THEN << >>
            ELSE LET degree == random_choice(
                                 << scale[1], IF Len(scale) > 4 THEN scale[5] ELSE scale[1] >>,
                                 tape, k)
                     pitch  == Max2(24, Min2(60, 36 + degree))
                     dur    == Min2(4, window.end_step - step)
                 IN << NoteEvent("triangle", pitch, 100, step, dur) >>
                    \o BassLoop(window, scale, pattern, j + 1, tape, k + 1)

_generate_bass(window, scale, variant_index, tape, k) ==
    BassLoop(window, scale, BASS_PATTERNS[(variant_index % Len(BASS_PATTERNS)) + 1],
             1, tape, k)

\* one of the three loops of _generate_drums
RECURSIVE DrumLoop(_, _, _, _, _, _)
DrumLoop(window, pattern, j, pitch, velocity, dur) ==
    IF j > Len(pattern) THEN << >>
    ELSE LET step == window.start_step + pattern[j]
         IN (IF step < window.end_step
             THEN << NoteEvent("noise", pitch, velocity, step, dur) >> ELSE << >>)
            \o DrumLoop(window, pattern, j + 1, pitch, velocity, dur)

\* sorted(events, key=lambda e: (e.start_step, -e.velocity)): stable
RECURSIVE InsertByStartVel(_, _)
InsertByStartVel(sorted, e) ==
    IF sorted = << >> THEN << e >>
    ELSE LET l == sorted[Len(sorted)]
         IN IF \/ l.start_step < e.start_step
               \/ (l.start_step = e.start_step /\ l.velocity >= e.velocity)
            THEN Append(sorted, e)
            ELSE Append(InsertByStartVel(SubSeq(sorted, 1, Len(sorted) - 1), e), l)

RECURSIVE SortByStartVel(_)
SortByStartVel(events) ==
    IF events = << >> THEN << >>
    ELSE InsertByStartVel(SortByStartVel(SubSeq(events, 1, Len(events) - 1)),
                          events[Len(events)])

RECURSIVE KeepFirst(_, _)
KeepFirst(result, rest) ==
    IF rest = << >> THEN result
    ELSE IF Head(rest).start_step >= end_step(result[Len(result)])
         THEN KeepFirst(Append(result, Head(rest)), Tail(rest))
         ELSE KeepFirst(result, Tail(rest))

_remove_overlaps(events) ==
    IF events = << >> THEN events
    ELSE LET sorted == SortByStartVel(events)
         IN KeepFirst(<< Head(sorted) >>, Tail(sorted))

EveryOther(s) == [ i \in 1..((Len(s) + 1) \div 2) |-> s[2 * i - 1] ]

\* _generate_drums without the kick and the snare: no drums in variant 0
_generate_drums_HihatOnly(window, variant_index) ==
    _remove_overlaps(
        IF variant_index > 0
        THEN DrumLoop(window, EveryOther(DRUM_PATTERNS.hihat), 1, 42, 64, 1)
        ELSE << >>)

_generate_drums(window, variant_index) ==
    _remove_overlaps(
        DrumLoop(window, DRUM_PATTERNS.kick, 1, 36, 127, 2)
        \o DrumLoop(window, DRUM_PATTERNS.snare, 1, 38, 100, 2)
        \o (IF variant_index > 0
            THEN DrumLoop(window, EveryOther(DRUM_PATTERNS.hihat), 1, 42, 64, 1)
            ELSE << >>))

Variant(id, tags, events) == [ id |-> id, tags |-> tags, events |-> events ]

\* `k` random.choice calls have been made before this variant
_compose_algorithmic(window, variant_index, tape, k) ==
    LET scale  == SCALES(key)
        melody == _generate_melody(window, scale, variant_index, tape, k)
        bass   == _generate_bass(window, scale, variant_index, tape, k + 3 * Len(melody))
        drums  == _generate_drums(window, variant_index)
    IN Variant("algo_v" \o ToString(variant_index),
               << "algorithmic", "variant_" \o ToString(variant_index),
                  IF variant_index = 0 THEN "conservative"
                  ELSE IF variant_index = 1 THEN "melodic" ELSE "experimental" >>,
               melody \o bass \o drums)

\* random.choice calls made by one _compose_algorithmic call
RandomCalls(v) ==
    3 * Len(by_track(v.events, "pulse1")) + Len(by_track(v.events, "triangle"))

\* the body of the `for e in v_data.get("events", [])` loop: a KeyError or a
\* pydantic ValidationError on the first bad event
EventsParse(raw_events) == \A i \in 1..Len(raw_events) : NoteEventValid(raw_events[i])

\* the `for v_data in data.get("variants", [])` loop; an exception ends it and
\* keeps the variants appended so far
RECURSIVE ParseVariants(_, _, _)
ParseVariants(raw, j, variants) ==
    IF j > Len(raw) THEN variants
    ELSE LET v_data == raw[j]
         IN IF ~EventsParse(v_data.events) THEN variants
            ELSE ParseVariants(raw, j + 1,
                   Append(variants,
                     Variant(IF "id" \in DOMAIN v_data THEN v_data.id
                             ELSE "llm_v" \o ToString(Len(variants)),
                             << "llm_generated" >>,
                             v_data.events)))

\* response.kind: "raises" (llm.invoke raised), "no_json" (no braces in the
\* content), "bad_json" (json.loads raised), "json" (data parsed)
_compose_with_llm(response) ==
    IF response.kind = "json" THEN ParseVariants(response.variants, 1, << >>)
    ELSE << >>

\* the padding loop of compose_window
RECURSIVE PadLoop(_, _, _, _, _)
PadLoop(variants, n, window, tape, k) ==
    IF Len(variants) >= n THEN variants
    ELSE LET variant == _compose_algorithmic(window, Len(variants), tape, k)
         IN PadLoop(Append(variants, variant), n, window, tape, k + RandomCalls(variant))

\* ProposalV1(variants=...) raises for an empty list (min_length=1)
compose_window(bar, n, response, tape) ==
    LET window   == Window(bar, resolution)
        variants == PadLoop(IF use_llm THEN _compose_with_llm(response) ELSE << >>,
                            n, window, tape, 0)
    IN [ raised   |-> variants = << >>,
         window   |-> window,
         variants |-> variants ]

(***************************************************************************)
(* agents/researcher_agent.py                                              *)
(***************************************************************************)
RECURSIVE GCD(_, _)
GCD(a, b) == IF b = 0 THEN a ELSE GCD(b, a % b)

\* exact fractions n/d with d > 0, in lowest terms
Frac(n, d) ==
    LET g == GCD(Abs(n), d) IN [ n |-> n \div g, d |-> d \div g ]
FracAdd(a, b) == Frac(a.n * b.d + b.n * a.d, a.d * b.d)
FracSub(a, b) == Frac(a.n * b.d - b.n * a.d, a.d * b.d)
FracLess(a, b) == a.n * b.d < b.n * a.d
FracLeq(a, b) == a.n * b.d <= b.n * a.d
FracAbs(a) == [ n |-> Abs(a.n), d |-> a.d ]
FracMin(a, b) == IF FracLeq(a, b) THEN a ELSE b
FracMax(a, b) == IF FracLeq(b, a) THEN a ELSE b

\* thousandths: the unit of the entropy and of the scalar score
Milli == 10 * 10 * 10
FracMilli(a, factor) == (factor * Milli * a.n) \div a.d

\* round(1000 * log2(n)) for n = 1..32
Log2Milli ==
    << 0, 1000, 1585, 2000, 2322, 2585, 2807, 3000,
       3170, 3322, 3459, 3585, 3700, 3807, 3907, 4000,
       4087, 4170, 4248, 4322, 4392, 4459, 4524, 4585,
       4644, 4700, 4755, 4807, 4858, 4907, 4954, 5000 >>

Pitches(events) == { events[i].pitch : i \in 1..Len(events) }

_calculate_repetition(events) ==
    IF Len(events) < 2 THEN Frac(0, 1)
    ELSE FracMin(Frac(1, 1),
                 Frac(Len(events) - Cardinality(Pitches(events)), Len(events)))

OnsetCount(events, window_size, o) ==
    Cardinality({ i \in 1..Len(events) : events[i].start_step % window_size = o })

RECURSIVE SumOver(_, _)
SumOver(f, S) ==
    IF S = {} THEN 0
    ELSE LET x == CHOOSE y \in S : TRUE IN f[x] + SumOver(f, S \ {x})

\* entropy = log2(total) - (1/total) * sum(count * log2(count)), over log2(total)
_calculate_rhythm_entropy(events, window_size) ==
    IF events = << >> \/ window_size = 0 THEN 0
    ELSE LET total  == Len(events)
             onsets == { events[i].start_step % window_size : i \in 1..total }
             clogc  == [ o \in onsets |->
                           LET c == OnsetCount(events, window_size, o)
                           IN c * Log2Milli[c] ]
         IN IF total = 1 THEN 0
            ELSE ((total * Log2Milli[total] - SumOver(clogc, onsets)) * Milli)
                 \div (total * Log2Milli[total])

\* ulps (2^-52) by which the IEEE-754 evaluation of entropy / max_entropy
\* exceeds 1.0 when all `total` onsets are distinct (p = 1/total, the sum of
\* total terms -p * log2(p), divided by log2(total)), for total = 1..16
EntropyUlpsAboveOne ==
    << 0, 0, 0, 0, 0, 0, 0, 0,
       0, 0, 1, 0, 1, 2, 0, 0 >>

\* the part of _calculate_rhythm_entropy's float result above 1.0, in ulps
RhythmEntropyUlps(events, window_size) ==
    IF events = << >> \/ window_size = 0 THEN 0
    ELSE LET total  == Len(events)
             onsets == { events[i].start_step % window_size : i \in 1..total }
         IN IF Cardinality(onsets) = total /\ total <= Len(EntropyUlpsAboveOne)
            THEN EntropyUlpsAboveOne[total] ELSE 0

_count_range_violations(events) ==
    Cardinality({ i \in 1..Len(events) : PitchOutOfRange(events[i]) })

_count_polyphony_violations(events) == Len(PolyphonyFrom(events, 1))

TargetDensity == Frac(constraints.target_density_per_bar, 16)

_calculate_style_compliance(events, window) ==
    IF events = << >> THEN Frac(1, 2)
    ELSE LET n == Len(events)
             invalid_vel == Cardinality({ i \in 1..n :
                               events[i].velocity \notin Range(constraints.velocity_levels) })
             off_grid == Cardinality({ i \in 1..n :
                               events[i].start_step % constraints.prefer_step_grid # 0 })
             density == Frac(n, window.end_step - window.start_step)
             density_diff == FracAbs(FracSub(density, TargetDensity))
             score == FracSub(FracSub(FracSub(Frac(1, 1), Frac(invalid_vel, 10 * n)),
                                      Frac(off_grid, 20 * n)),
                              Frac(FracMin(Frac(1, 1), density_diff).n,
                                   10 * FracMin(Frac(1, 1), density_diff).d))
         IN FracMax(Frac(0, 1), FracMin(Frac(1, 1), score))

_calculate_metrics(variant, window) ==
    LET events == variant.events
        window_size == window.end_step - window.start_step
    IN [ density          |-> IF window_size > 0 THEN Frac(Len(events), window_size)
                              ELSE Frac(0, 1),
         repetition       |-> _calculate_repetition(events),
         rhythm_entropy   |-> _calculate_rhythm_entropy(events, window_size),
         rhythm_entropy_ulps |-> RhythmEntropyUlps(events, window_size),
         range_violations |-> _count_range_violations(events),
         polyphony_violations |-> _count_polyphony_violations(events),
         style_compliance |-> _calculate_style_compliance(events, window) ]

\* the scalar score, in thousandths
_calculate_score(metrics, variant) ==
    LET tracks_used == Cardinality({ variant.events[i].track : i \in 1..Len(variant.events) })
        score ==
            50 * Milli
            - metrics.range_violations * 10 * Milli
            - metrics.polyphony_violations * 15 * Milli
            + FracMilli(metrics.style_compliance, 20)
            + (IF FracLeq(Frac(1, 5), metrics.repetition)
                  /\ FracLeq(metrics.repetition, Frac(2, 5))
               THEN 10 * Milli
               ELSE IF FracLess(Frac(3, 5), metrics.repetition) THEN -5 * Milli ELSE 0)
            + metrics.rhythm_entropy * 10
            + (IF FracLess(FracAbs(FracSub(metrics.density, TargetDensity)), Frac(1, 5))
               THEN 5 * Milli ELSE 0)
            + tracks_used * 3 * Milli
    IN Max2(0, Min2(100 * Milli, score))

_check_hard_constraints(variant, window) ==
    /\ \A i \in 1..Len(variant.events) :
         /\ ~PitchOutOfRange(variant.events[i])
         /\ ~(\/ variant.events[i].start_step < window.start_step
              \/ variant.events[i].start_step >= window.end_step)
    /\ \A k \in 1..Len(constraints.monophonic_tracks) :
         LET track_events ==
               SortByStart(by_track(variant.events, constraints.monophonic_tracks[k]))
         IN \A i \in 1..(Len(track_events) - 1) :
              ~(end_step(track_events[i]) > track_events[i + 1].start_step)

VariantRanking(variant, window) ==
    [ variant_id |-> variant.id,
      score      |-> _calculate_score(_calculate_metrics(variant, window), variant),
      passed_hard_constraints |-> _check_hard_constraints(variant, window) ]

\* InsertByScore placing a ranking before the earlier rankings of equal score
RECURSIVE InsertByScore_Unstable(_, _)
InsertByScore_Unstable(sorted, r) ==
    IF sorted = << >> THEN << r >>
    ELSE IF sorted[Len(sorted)].score > r.score
         THEN Append(sorted, r)
         ELSE Append(InsertByScore_Unstable(SubSeq(sorted, 1, Len(sorted) - 1), r),
                     sorted[Len(sorted)])

\* rankings.sort(key=lambda r: r.score, reverse=True): stable
RECURSIVE InsertByScore(_, _)
InsertByScore(sorted, r) ==
    IF sorted = << >> THEN << r >>
    ELSE IF sorted[Len(sorted)].score >= r.score
         THEN Append(sorted, r)
         ELSE Append(InsertByScore(SubSeq(sorted, 1, Len(sorted) - 1), r),
                     sorted[Len(sorted)])

RECURSIVE SortByScore(_)
SortByScore(rankings) ==
    IF rankings = << >> THEN << >>
    ELSE InsertByScore(SortByScore(SubSeq(rankings, 1, Len(rankings) - 1)),
                       rankings[Len(rankings)])

RECURSIVE FracSum(_, _)
FracSum(fs, k) == IF k > Len(fs) THEN Frac(0, 1) ELSE FracAdd(fs[k], FracSum(fs, k + 1))

RECURSIVE IntSum(_, _)
IntSum(xs, k) == IF k > Len(xs) THEN 0 ELSE xs[k] + IntSum(xs, k + 1)

FracDiv(a, n) == Frac(a.n, a.d * n)

\* _aggregate_metrics averaging the violation counts like the other metrics
_aggregate_metrics_AveragesCounts(metrics_list) ==
    LET n == Len(metrics_list)
        col(f) == [ i \in 1..n |-> metrics_list[i][f] ]
    IN IF n = 0
       THEN [ density |-> Frac(0, 1), repetition |-> Frac(0, 1), rhythm_entropy |-> 0,
              range_violations |-> 0, polyphony_violations |-> 0,
              style_compliance |-> Frac(0, 1) ]
       ELSE [ density          |-> FracDiv(FracSum(col("density"), 1), n),
              repetition       |-> FracDiv(FracSum(col("repetition"), 1), n),
              rhythm_entropy   |-> IntSum(col("rhythm_entropy"), 1) \div n,
              range_violations |-> IntSum(col("range_violations"), 1) \div n,
              polyphony_violations |-> IntSum(col("polyphony_violations"), 1) \div n,
              style_compliance |-> FracDiv(FracSum(col("style_compliance"), 1), n) ]

_aggregate_metrics(metrics_list) ==
    LET n == Len(metrics_list)
        col(f) == [ i \in 1..n |-> metrics_list[i][f] ]
    IN IF n = 0
       THEN [ density |-> Frac(0, 1), repetition |-> Frac(0, 1), rhythm_entropy |-> 0,
              range_violations |-> 0, polyphony_violations |-> 0,
              style_compliance |-> Frac(0, 1) ]
       ELSE [ density          |-> FracDiv(FracSum(col("density"), 1), n),
              repetition       |-> FracDiv(FracSum(col("repetition"), 1), n),
              rhythm_entropy   |-> IntSum(col("rhythm_entropy"), 1) \div n,
              range_violations |-> IntSum(col("range_violations"), 1),
              polyphony_violations |-> IntSum(col("polyphony_violations"), 1),
              style_compliance |-> FracDiv(FracSum(col("style_compliance"), 1), n) ]

Hint(priority, message, track, bar) ==
    [ priority |-> priority, message |-> message, track |-> track, bar_index |-> bar ]

_generate_hints(window, metrics) ==
    (IF FracLess(Frac(1, 1), metrics.density)
     THEN << Hint("medium", "Reducir densidad de eventos", "all", window.bar_index) >>
     ELSE IF FracLess(metrics.density, Frac(1, 5))
          THEN << Hint("low", "Considerar anadir mas eventos", "all", window.bar_index) >>
          ELSE << >>)
    \o (IF FracLess(Frac(3, 5), metrics.repetition)
        THEN << Hint("medium", "Anadir mas variedad melodica", "pulse1", window.bar_index) >>
        ELSE IF FracLess(metrics.repetition, Frac(1, 10))
             THEN << Hint("low", "Considerar repetir algunos motivos", "pulse1",
                          window.bar_index) >>
             ELSE << >>)
    \o (IF metrics.range_violations > 0
        THEN << Hint("high",
                     "Corregir " \o ToString(metrics.range_violations)
                        \o " notas fuera de rango",
                     "all", window.bar_index) >>
        ELSE << >>)
    \o (IF metrics.polyphony_violations > 0
        THEN << Hint("high",
                     "Resolver " \o ToString(metrics.polyphony_violations) \o " overlaps",
                     "all", window.bar_index) >>
        ELSE << >>)
    \o (IF FracLess(metrics.style_compliance, Frac(3, 5))
        THEN << Hint("medium", "Ajustar velocities a niveles 8-bit", "all", NoIndex) >>
        ELSE << >>)

evaluate_proposal(p) ==
    LET all_metrics == [ i \in 1..Len(p.variants) |->
                           _calculate_metrics(p.variants[i], p.window) ]
        rankings == SortByScore([ i \in 1..Len(p.variants) |->
                                    VariantRanking(p.variants[i], p.window) ])
        avg_metrics == _aggregate_metrics(all_metrics)
    IN [ window   |-> p.window,
         rankings |-> rankings,
         metrics  |-> avg_metrics,
         hints    |-> _generate_hints(p.window, avg_metrics) ]

(***************************************************************************)
(* models/critic_report.py, models/proposal.py                             *)
(***************************************************************************)
\* MaxByScore returning the last maximum
RECURSIVE MaxByScore_Last(_, _)
MaxByScore_Last(rs, k) ==
    IF k = Len(rs) THEN rs[k]
    ELSE LET rest == MaxByScore_Last(rs, k + 1)
         IN IF rs[k].score > rest.score THEN rs[k] ELSE rest

\* max(rs, key=lambda r: r.score): the first maximum
RECURSIVE MaxByScore(_, _)
MaxByScore(rs, k) ==
    IF k = Len(rs) THEN rs[k]
    ELSE LET rest == MaxByScore(rs, k + 1)
         IN IF rs[k].score >= rest.score THEN rs[k] ELSE rest

get_best_variant_id(report) ==
    LET valid == SelectSeq(report.rankings, LAMBDA r : r.passed_hard_constraints)
    IN IF valid = << >> THEN MaxByScore(report.rankings, 1).variant_id
       ELSE MaxByScore(valid, 1).variant_id

\* ProposalV1.get_variant: the first variant with that id, or None
get_variant(p, variant_id) ==
    LET idx == { i \in 1..Len(p.variants) : p.variants[i].id = variant_id }
    IN IF idx = {} THEN None
       ELSE [ some |-> TRUE,
              variant |-> p.variants[CHOOSE i \in idx : \A j \in idx : i <= j] ]

(***************************************************************************)
(* The external generator and the random source: what they may answer.     *)
(***************************************************************************)
\* outcomes of the successive random.choice calls of one compose_window call
RandomTapes == { << 0 >>, << 1, 0, 2 >> }

\* The events an LLM answer is built from, placed relative to the window: a
\* base event and the events that differ from it in the note or in the offset
\* (offset -1 in bar 0 gives a start_step below 0), and one with a key missing.
LLMEvent(window, track, pitch, off) ==
    NoteEvent(track, pitch, 90, window.start_step + off, 4)

LLMBase(window) == LLMEvent(window, "pulse1", 60, 0)

LLMNotes == { << "pulse1", 60 >>, << "pulse1", 120 >>, << "fx", 120 >> }
LLMOffsets == { -1, 0, 2, 15 }

LLMEvents(window) ==
    { LLMEvent(window, n[1], n[2], 0) : n \in LLMNotes }
    \cup { LLMEvent(window, "pulse1", 60, off) : off \in LLMOffsets }

LLMBadEvent(window) ==
    [ track |-> "pulse1", pitch |-> 60, velocity |-> 90, start_step |-> window.start_step ]

LLMEventLists(window) ==
    { << >>, << LLMBadEvent(window) >> }
    \cup { << e >> : e \in LLMEvents(window) }
    \cup { << e, LLMBase(window) >> : e \in LLMEvents(window) }

\* what the external generator may answer for a window: a failure, or a JSON
\* object with no variant, one variant, one variant under an id the fallback
\* generator also uses, or two variants
LLMResponses(window) ==
    { [ kind |-> "raises" ], [ kind |-> "no_json" ], [ kind |-> "bad_json" ],
      [ kind |-> "json", variants |-> << >> ] }
    \cup { [ kind |-> "json", variants |-> << [ events |-> es ] >> ] :
             es \in LLMEventLists(window) }
    \cup { [ kind |-> "json",
             variants |-> << [ id |-> "algo_v1", events |-> << LLMBase(window) >> ] >> ] }
    \cup { [ kind |-> "json",
             variants |-> << [ events |-> << LLMBase(window) >> ], [ events |-> es ] >> ] :
             es \in { << LLMEvent(window, "pulse1", 120, 0) >>,
                      << LLMBadEvent(window) >> } }

NoResponse == [ kind |-> "none" ]

(***************************************************************************)
(* agents/orchestrator.py: compose and _compose_bar                        *)
(***************************************************************************)
Null == << >>

IterationResult(bar, id, before, after, added, hs, passed) ==
    [ bar_index |-> bar, selected_variant_id |-> id, score_before_passes |-> before,
      score_after_validation |-> after, events_added |-> added, hints |-> hs,
      passed_validation |-> passed ]

\* next(r for r in rankings if r.variant_id == best_variant_id)
best_ranking(report) ==
    LET id == get_best_variant_id(report)
        idx == { i \in 1..Len(report.rankings) : report.rankings[i].variant_id = id }
    IN report.rankings[CHOOSE i \in idx : \A j \in idx : i <= j]

selected_variant(p, report) ==
    LET found == get_variant(p, get_best_variant_id(report))
    IN IF found.some THEN found.variant ELSE p.variants[1]

(***************************************************************************)
(* agents/composer_agent.py.  A text is a sequence of tokens: "{", "}",    *)
(* ",", the member texts "v" ("schema_version": "score.v1"), "o"           *)
(* ("schema_version": "other.v1") and "n" ("nested": followed by a value), *)
(* and prose "x", "q" (the query) and "g" (the request to generate).       *)
(***************************************************************************)
\* one iteration more than the loop of run makes
max_iterations_Eleven == 10 + 1

max_iterations == 10

IterationLimitError == "Error: Se alcanzó el límite de iteraciones"

Message(type, text, tool_calls, tool_call_id) ==
    [ type |-> type, content |-> text, tool_calls |-> tool_calls,
      tool_call_id |-> tool_call_id ]

HumanMessage(text) == Message("human", text, << >>, "")
AIMessage(text, tool_calls) == Message("ai", text, tool_calls, "")
ToolMessage(text, tool_call_id) == Message("tool", text, << >>, tool_call_id)

\* self.current_score is None
NoScore == [ schema_version |-> "none", text |-> << >> ]

\* run has not returned
NoResult == [ kind |-> "none", text |-> << >> ]

JSONDecodeError == [ ok |-> FALSE, next |-> 0, schema_version |-> "none" ]

\* json.loads on an object that starts at token i: the position after the
\* object and the value of its own "schema_version" key (the last one wins)
RECURSIVE ParseObject(_, _)
RECURSIVE ParseMembers(_, _, _)
ParseObject(s, i) ==
    IF i > Len(s) \/ s[i] # "{" THEN JSONDecodeError
    ELSE IF i + 1 <= Len(s) /\ s[i + 1] = "}"
         THEN [ ok |-> TRUE, next |-> i + 2, schema_version |-> "none" ]
         ELSE ParseMembers(s, i + 1, "none")

ParseMembers(s, i, schema) ==
    IF i > Len(s) THEN JSONDecodeError
    ELSE LET member ==
               IF s[i] = "v"
               THEN [ ok |-> TRUE, next |-> i + 1, schema_version |-> "score.v1" ]
               ELSE IF s[i] = "o"
               THEN [ ok |-> TRUE, next |-> i + 1, schema_version |-> "other.v1" ]
               ELSE IF s[i] = "n"
               THEN LET value == ParseObject(s, i + 1)
                    IN [ ok |-> value.ok, next |-> value.next, schema_version |-> schema ]
               ELSE JSONDecodeError
         IN IF ~member.ok \/ member.next > Len(s) THEN JSONDecodeError
            ELSE IF s[member.next] = ","
                 THEN ParseMembers(s, member.next + 1, member.schema_version)
                 ELSE IF s[member.next] = "}"
                      THEN [ ok |-> TRUE, next |-> member.next + 1,
                             schema_version |-> member.schema_version ]
                      ELSE JSONDecodeError

\* json.loads(json_str): the whole text must be one object
json_loads(s) ==
    LET r == ParseObject(s, 1)
    IN IF r.ok /\ r.next = Len(s) + 1
       THEN [ ok |-> TRUE, schema_version |-> r.schema_version, text |-> s ]
       ELSE [ ok |-> FALSE, schema_version |-> "none", text |-> s ]

\* content.find('{') and content.rfind('}'), 1-based, 0 when not found
find(text, token) ==
    IF \E i \in 1..Len(text) : text[i] = token
    THEN CHOOSE i \in 1..Len(text) :
           text[i] = token /\ \A j \in 1..(i - 1) : text[j] # token
    ELSE 0

rfind(text, token) ==
    IF \E i \in 1..Len(text) : text[i] = token
    THEN CHOOSE i \in 1..Len(text) :
           text[i] = token /\ \A j \in (i + 1)..Len(text) : text[j] # token
    ELSE 0

\* the body of the try block of _try_extract_score: whether it raised, and
\* self.current_score after it
ExtractBody(text, score) ==
    LET start == find(text, "{")
        end   == rfind(text, "}")
    IN IF start >= 1 /\ end > start
       THEN LET data == json_loads(SubSeq(text, start, end))
            IN IF ~data.ok THEN [ raised |-> TRUE, current_score |-> score ]
               ELSE IF data.schema_version = "score.v1"
                    THEN [ raised |-> FALSE,
                           current_score |-> [ schema_version |-> data.schema_version,
                                               text |-> data.text ] ]
                    ELSE [ raised |-> FALSE, current_score |-> score ]
       ELSE [ raised |-> FALSE, current_score |-> score ]

\* _try_extract_score without the except clause
_try_extract_score_NoExcept(text, score) == ExtractBody(text, score)

\* try: ... except: pass
_try_extract_score(text, score) ==
    [ raised |-> FALSE, current_score |-> ExtractBody(text, score).current_score ]

\* the ids of msg.tool_calls that have one
tool_call_ids(msg) ==
    { msg.tool_calls[k].id : k \in { k \in 1..Len(msg.tool_calls) :
                                       msg.tool_calls[k].id # "" } }

\* the index after the ToolMessages that follow position i
RECURSIVE AfterToolMessages(_, _)
AfterToolMessages(msgs, j) ==
    IF j <= Len(msgs) /\ msgs[j].type = "tool"
    THEN AfterToolMessages(msgs, j + 1) ELSE j

\* ValidFrom keeping an AIMessage with tool calls whatever follows it
RECURSIVE ValidFrom_KeepsUnanswered(_, _)
ValidFrom_KeepsUnanswered(msgs, i) ==
    IF i > Len(msgs) THEN << >>
    ELSE LET msg == msgs[i]
         IN IF msg.type = "ai" /\ msg.tool_calls # << >>
            THEN LET j == AfterToolMessages(msgs, i + 1)
                 IN << msg >> \o SubSeq(msgs, i + 1, j - 1)
                    \o ValidFrom_KeepsUnanswered(msgs, j)
            ELSE IF msg.type = "tool" THEN ValidFrom_KeepsUnanswered(msgs, i + 1)
                 ELSE << msg >> \o ValidFrom_KeepsUnanswered(msgs, i + 1)

\* the while loop of _get_valid_messages from index i
RECURSIVE ValidFrom(_, _)
ValidFrom(msgs, i) ==
    IF i > Len(msgs) THEN << >>
    ELSE LET msg == msgs[i]
         IN IF msg.type = "ai" /\ msg.tool_calls # << >>
            THEN LET j == AfterToolMessages(msgs, i + 1)
                     tool_responses == SubSeq(msgs, i + 1, j - 1)
                     response_ids ==
                         { tool_responses[k].tool_call_id : k \in 1..Len(tool_responses) }
                 IN IF tool_call_ids(msg) \subseteq response_ids
                    THEN << msg >> \o tool_responses \o ValidFrom(msgs, j)
                    ELSE ValidFrom(msgs, j)
            ELSE IF msg.type = "tool" THEN ValidFrom(msgs, i + 1)
                 ELSE << msg >> \o ValidFrom(msgs, i + 1)

_get_valid_messages(msgs) == ValidFrom(msgs, 1)

\* the names of self.tools (get_all_score_tools)
ToolNames ==
    { "validate_score_v1", "score_v1_to_midi", "midi_to_wav_fluidsynth",
      "play_audio", "score_v1_pipeline_listen" }

\* _execute_tool: tool._run(**tool_args) raises on arguments it does not
\* accept; an unknown name gives the "Tool no encontrada" error text
_execute_tool(tool_call) ==
    IF tool_call.name \in ToolNames
    THEN IF tool_call.args = "accepted"
         THEN [ raised |-> FALSE, text |-> << "{", "r", "}" >> ]
         ELSE [ raised |-> TRUE, text |-> << >> ]
    ELSE [ raised |-> FALSE, text |-> << "{", "error", "}" >> ]

\* ToolCallLoop leaving the loop after the first tool call
ToolCallLoop_OnlyFirst(tool_calls, k) ==
    IF k > Len(tool_calls)
    THEN [ raised |-> FALSE, appended |-> << >>, executed |-> << >> ]
    ELSE LET tool_result_k == _execute_tool(tool_calls[k])
         IN [ raised   |-> tool_result_k.raised,
              appended |-> IF tool_result_k.raised THEN << >>
                           ELSE << ToolMessage(tool_result_k.text, tool_calls[k].id) >>,
              executed |-> << tool_calls[k] >> ]

\* the for loop over response.tool_calls from call k: the messages appended,
\* the calls executed and whether a tool raised
RECURSIVE ToolCallLoop(_, _)
ToolCallLoop(tool_calls, k) ==
    IF k > Len(tool_calls)
    THEN [ raised |-> FALSE, appended |-> << >>, executed |-> << >> ]
    ELSE LET tool_result_k == _execute_tool(tool_calls[k])
         IN IF tool_result_k.raised
            THEN [ raised |-> TRUE, appended |-> << >>, executed |-> << tool_calls[k] >> ]
            ELSE LET rest == ToolCallLoop(tool_calls, k + 1)
                 IN [ raised   |-> rest.raised,
                      appended |-> << ToolMessage(tool_result_k.text, tool_calls[k].id) >>
                                   \o rest.appended,
                      executed |-> << tool_calls[k] >> \o rest.executed ]

(***************************************************************************)
(* tools/score_tools.py: validate_score_v1.  A score is the JSON object    *)
(* as a record: the set of its top-level keys, the set of the keys of its  *)
(* metadata, and the values the function reads.  An error or a warning is   *)
(* kept as the rule that produced it, with the event index and the track.  *)
(***************************************************************************)
required_fields == << "schema_version", "metadata", "resolution", "tracks", "events" >>

metadata_fields == << "title", "tempo_bpm", "time_signature", "key", "length_bars" >>

Finding(rule, index, track) == [ rule |-> rule, event_index |-> index, track |-> track ]

\* one finding per element of the list that is not in the set
RECURSIVE MissingFrom(_, _, _, _)
MissingFrom(names, present, rule, k) ==
    IF k > Len(names) THEN << >>
    ELSE (IF names[k] \notin present
          THEN << Finding(rule, NoIndex, names[k]) >> ELSE << >>)
         \o MissingFrom(names, present, rule, k + 1)

\* the body of `for i, event in enumerate(events)` for one event
ScoreEventErrors(event, i, track_ids, max_step) ==
    IF event.track \notin track_ids
    THEN << Finding("track_undefined", i, event.track) >>
    ELSE (IF event.start_step < 0
          THEN << Finding("start_negative", i, event.track) >> ELSE << >>)
         \o (IF event.start_step >= max_step
             THEN << Finding("start_beyond_length", i, event.track) >> ELSE << >>)
         \o (IF event.dur_steps < 1
             THEN << Finding("dur_steps", i, event.track) >> ELSE << >>)
         \o (IF event.pitch < 0 \/ event.pitch > 127
             THEN << Finding("pitch_midi_range", i, event.track) >> ELSE << >>)
         \o (IF event.velocity < 1 \/ event.velocity > 127
             THEN << Finding("velocity_midi_range", i, event.track) >> ELSE << >>)

RECURSIVE ScoreEventLoop(_, _, _, _)
ScoreEventLoop(events, k, track_ids, max_step) ==
    IF k > Len(events) THEN << >>
    ELSE ScoreEventErrors(events[k], k - 1, track_ids, max_step)
         \o ScoreEventLoop(events, k + 1, track_ids, max_step)

\* `for i in range(len(track_events) - 1)` over one sorted track
RECURSIVE ScoreOverlaps(_, _, _)
ScoreOverlaps(track_id, track_events, i) ==
    IF i >= Len(track_events) THEN << >>
    ELSE (IF track_events[i].start_step + track_events[i].dur_steps
               > track_events[i + 1].start_step
          THEN << Finding("overlap", NoIndex, track_id) >> ELSE << >>)
         \o ScoreOverlaps(track_id, track_events, i + 1)

\* `for track_id in monophonic_tracks`, here in the order of score.tracks
RECURSIVE ScoreMonophony(_, _, _)
ScoreMonophony(tracks, accepted, k) ==
    IF k > Len(tracks) THEN << >>
    ELSE (IF tracks[k].monophonic
          THEN ScoreOverlaps(tracks[k].id, SortByStart(by_track(accepted, tracks[k].id)), 1)
          ELSE << >>)
         \o ScoreMonophony(tracks, accepted, k + 1)

\* the pitch range loop of the constraints block
RECURSIVE ScorePitchRanges(_, _, _)
ScorePitchRanges(events, pitch_ranges, k) ==
    IF k > Len(events) THEN << >>
    ELSE (IF /\ events[k].track \in DOMAIN pitch_ranges
             /\ \/ events[k].pitch < pitch_ranges[events[k].track].min
                \/ events[k].pitch > pitch_ranges[events[k].track].max
          THEN << Finding("pitch_range", k - 1, events[k].track) >> ELSE << >>)
         \o ScorePitchRanges(events, pitch_ranges, k + 1)

\* ScoreVelocityLevels reporting only the velocities below the lowest level
RECURSIVE ScoreVelocityLevels_BelowOnly(_, _, _)
ScoreVelocityLevels_BelowOnly(events, velocity_levels, k) ==
    IF k > Len(events) \/ velocity_levels = << >> THEN << >>
    ELSE (IF \A l \in Range(velocity_levels) : events[k].velocity < l
          THEN << Finding("velocity_level", k - 1, events[k].track) >> ELSE << >>)
         \o ScoreVelocityLevels_BelowOnly(events, velocity_levels, k + 1)

\* the velocity levels loop of the constraints block
RECURSIVE ScoreVelocityLevels(_, _, _)
ScoreVelocityLevels(events, velocity_levels, k) ==
    IF k > Len(events) \/ velocity_levels = << >> THEN << >>
    ELSE (IF events[k].velocity \notin Range(velocity_levels)
          THEN << Finding("velocity_level", k - 1, events[k].track) >> ELSE << >>)
         \o ScoreVelocityLevels(events, velocity_levels, k + 1)

validate_score_v1(score_json, constraints_json, strict) ==
    LET missing == MissingFrom(required_fields, score_json.fields, "missing_field", 1)
    IN IF missing # << >>
       THEN [ valid |-> FALSE, errors |-> missing, warnings |-> << >> ]
       ELSE
       LET metadata      == score_json.metadata
           steps_per_bar_ == score_json.resolution.steps_per_beat
                             * score_json.resolution.beats_per_bar
           tracks        == score_json.tracks
           track_ids     == { tracks[k].id : k \in 1..Len(tracks) }
           events        == score_json.events
           length_bars_  == IF "length_bars" \in metadata.fields
                            THEN metadata.length_bars ELSE 1
           max_step      == length_bars_ * steps_per_bar_
           accepted      == SelectSeq(events, LAMBDA e : e.track \in track_ids)
           hard          == constraints_json.hard
           errors ==
               MissingFrom(metadata_fields, metadata.fields, "metadata_field", 1)
               \o ScoreEventLoop(events, 1, track_ids, max_step)
               \o ScoreMonophony(tracks, accepted, 1)
               \o (IF constraints_json.given
                   THEN MissingFrom(hard.required_tracks, track_ids, "required_track", 1)
                        \o ScorePitchRanges(events, hard.pitch_ranges, 1)
                   ELSE << >>)
           warnings ==
               IF constraints_json.given
               THEN ScoreVelocityLevels(events, hard.velocity_levels, 1)
               ELSE << >>
       IN IF strict /\ warnings # << >>
          THEN [ valid |-> FALSE, errors |-> errors \o warnings, warnings |-> << >> ]
          ELSE [ valid |-> errors = << >>, errors |-> errors, warnings |-> warnings ]

\* an entry of the pipeline's result: None, or the dict a step returned
None_ == [ none |-> TRUE, value |-> [ success |-> FALSE ] ]
Some_(value) == [ none |-> FALSE, value |-> value ]

\* the dict score_v1_to_midi, midi_to_wav_fluidsynth and play_audio return,
\* reduced to its 'success'
StepResult(success) == [ success |-> success ]

\* score_v1_pipeline_listen: the result before any step has run
PipelineResult ==
    [ validation |-> None_, midi |-> None_, wav |-> None_, playback |-> None_,
      success |-> FALSE ]

\* nothing has been called yet
StandaloneInit ==
    /\ event_velocity = 0 /\ quantized_velocity = 0
    /\ self_messages = << >> /\ current_score = NoScore
    /\ messages_to_send = << >> /\ content = << >>
    /\ llm_invocations = 0 /\ tool_runs = << >> /\ run_responses = << >>
    /\ run_result = NoResult
    /\ tool_args = Null /\ tool_result = Null

Config == << constraints, use_llm, resolution, key, score_tracks, length_bars,
            num_variants >>
Session == << score_events, total_events, validation_passes, validation_failures >>

\* EndOfBar carrying the new hints forward only when the bar passed validation
EndOfBar_HintsOnlyOnPass(final_events) ==
    /\ iterations' = Append(iterations,
          IterationResult(bar_index, get_best_variant_id(critic_report),
                          best_ranking(critic_report).score,
                          IF validation.is_valid THEN best_ranking(critic_report).score
                          ELSE 0,
                          IF validation.is_valid THEN Len(final_events) ELSE 0,
                          critic_report.hints, validation.is_valid))
    /\ hints' = IF validation.is_valid THEN critic_report.hints ELSE hints
    /\ bar_index' = bar_index + 1
    /\ proposal' = Null /\ critic_report' = Null /\ processed_events' = Null
    /\ validation' = Null /\ corrected_events' = Null
    /\ pc' = "generate"

\* the `return IterationResult(...)` of _compose_bar and the rest of the loop
\* body of compose: append the result, carry the hints, next bar
EndOfBar(final_events) ==
    /\ iterations' = Append(iterations,
          IterationResult(bar_index, get_best_variant_id(critic_report),
                          best_ranking(critic_report).score,
                          IF validation.is_valid THEN best_ranking(critic_report).score
                          ELSE 0,
                          IF validation.is_valid THEN Len(final_events) ELSE 0,
                          critic_report.hints, validation.is_valid))
    /\ hints' = critic_report.hints
    /\ bar_index' = bar_index + 1
    /\ proposal' = Null /\ critic_report' = Null /\ processed_events' = Null
    /\ validation' = Null /\ corrected_events' = Null
    /\ pc' = "generate"

\* compose: create the empty score and the session
Compose ==
    /\ pc = "idle"
    /\ length_bars' \in 1..MaxBars
    /\ num_variants' \in 0..MaxVariants
    /\ score_tracks' = create_empty_tracks
    /\ score_events' = << >> /\ iterations' = << >>
    /\ total_events' = 0 /\ validation_passes' = 0 /\ validation_failures' = 0
    /\ hints' = << >> /\ bar_index' = 0
    /\ pc' = "generate"
    /\ UNCHANGED << constraints, use_llm, resolution, key, Standalone, proposal, critic_report,
                    processed_events, validation, corrected_events,
                    musician_calls, critic_hints, llm_response, proposal2 >>

\* _compose_bar step 1: self.musician.compose_window(score, bar_index, prev_hints, n)
MusicianComposeWindow ==
    /\ pc = "generate" /\ bar_index < length_bars
    /\ \E response \in (IF use_llm THEN LLMResponses(Window(bar_index, resolution))
                        ELSE { NoResponse }),
          tape \in RandomTapes :
         LET result == compose_window(bar_index, num_variants, response, tape)
         IN /\ llm_response' = response
            /\ IF result.raised
               THEN /\ pc' = "raised" /\ proposal' = Null
               ELSE /\ pc' = "evaluate"
                    /\ proposal' = [ window |-> result.window, variants |-> result.variants ]
    /\ musician_calls' = Append(musician_calls,
                                [ bar_index |-> bar_index, hints |-> hints,
                                  num_variants |-> num_variants,
                                  recorded |-> Len(iterations),
                                  decided |-> validation_passes + validation_failures ])
    /\ UNCHANGED << Config, Standalone, Session, bar_index, hints, iterations, critic_report,
                    processed_events, validation, corrected_events, critic_hints,
                    proposal2 >>

\* step 2: self.researcher.evaluate_proposal(proposal, score)
ResearcherEvaluate ==
    /\ pc = "evaluate"
    /\ critic_report' = evaluate_proposal(proposal)
    /\ critic_hints' = Append(critic_hints, critic_report'.hints)
    /\ llm_response' = NoResponse
    /\ pc' = "validate"
    /\ UNCHANGED << Config, Standalone, Session, bar_index, hints, iterations, proposal,
                    processed_events, validation, corrected_events, musician_calls,
                    proposal2 >>

\* steps 3-5: pick the best variant, _apply_passes, self.pm.validate_variant
ApplyPassesAndValidate ==
    /\ pc = "validate"
    /\ LET processed == _apply_passes(selected_variant(proposal, critic_report).events)
           v == validate_variant(processed, proposal.window.start_step,
                                 proposal.window.end_step)
       IN /\ processed_events' = processed
          /\ validation' = v
          /\ pc' = IF v.is_valid THEN "commit" ELSE "auto_correct"
    /\ UNCHANGED << Config, Standalone, Session, bar_index, hints, iterations, proposal,
                    critic_report, corrected_events, musician_calls, critic_hints,
                    llm_response, proposal2 >>

\* Commit assigning the new events to score.events instead of extending it
Commit_Overwrite ==
    /\ pc = "commit"
    /\ score_events' = processed_events
    /\ validation_passes' = validation_passes + 1
    /\ total_events' = total_events + Len(processed_events)
    /\ EndOfBar(processed_events)
    /\ UNCHANGED << Config, Standalone, validation_failures, musician_calls, critic_hints,
                    llm_response, proposal2 >>

\* step 6, validation.is_valid: score.add_events(processed_events)
Commit ==
    /\ pc = "commit"
    /\ score_events' = score_events \o processed_events
    /\ validation_passes' = validation_passes + 1
    /\ total_events' = total_events + Len(processed_events)
    /\ EndOfBar(processed_events)
    /\ UNCHANGED << Config, Standalone, validation_failures, musician_calls, critic_hints,
                    llm_response, proposal2 >>

\* step 6, else: corrected_events = self._auto_correct(processed_events, validation)
AutoCorrect ==
    /\ pc = "auto_correct"
    /\ corrected_events' = _auto_correct(processed_events, validation)
    /\ pc' = IF corrected_events'.some /\ corrected_events'.events # << >>
             THEN "commit_corrected" ELSE "fail"
    /\ UNCHANGED << Config, Standalone, Session, bar_index, hints, iterations, proposal,
                    critic_report, processed_events, validation, musician_calls, critic_hints,
                    llm_response, proposal2 >>

\* CommitCorrected without `self.session.total_events += len(corrected_events)`
CommitCorrected_Uncounted ==
    /\ pc = "commit_corrected"
    /\ score_events' = score_events \o corrected_events.events
    /\ validation_passes' = validation_passes + 1
    /\ EndOfBar(corrected_events.events)
    /\ UNCHANGED << Config, Standalone, total_events, validation_failures, musician_calls,
                    critic_hints, llm_response, proposal2 >>

\* `if corrected_events:` score.add_events(corrected_events)
CommitCorrected ==
    /\ pc = "commit_corrected"
    /\ score_events' = score_events \o corrected_events.events
    /\ validation_passes' = validation_passes + 1
    /\ total_events' = total_events + Len(corrected_events.events)
    /\ EndOfBar(corrected_events.events)
    /\ UNCHANGED << Config, Standalone, validation_failures, musician_calls, critic_hints,
                    llm_response, proposal2 >>

\* RecordFailure keeping the rejected events in the score
RecordFailure_KeepsEvents ==
    /\ pc = "fail"
    /\ validation_failures' = validation_failures + 1
    /\ score_events' = score_events \o processed_events
    /\ EndOfBar(processed_events)
    /\ UNCHANGED << Config, Standalone, total_events, validation_passes,
                    musician_calls, critic_hints, llm_response, proposal2 >>

\* `else:` the bar failed validation
RecordFailure ==
    /\ pc = "fail"
    /\ validation_failures' = validation_failures + 1
    /\ EndOfBar(processed_events)
    /\ UNCHANGED << Config, Standalone, score_events, total_events, validation_passes,
                    musician_calls, critic_hints, llm_response, proposal2 >>

\* ComposeReturn one bar early (range(length_bars - 1))
ComposeReturn_OneBarEarly ==
    /\ pc = "generate" /\ bar_index >= length_bars - 1
    /\ pc' = "done"
    /\ UNCHANGED << Config, Standalone, Session, bar_index, hints, iterations, proposal,
                    critic_report, processed_events, validation, corrected_events,
                    musician_calls, critic_hints, llm_response, proposal2 >>

\* the loop of compose is exhausted: _log_session_summary, return session.score
ComposeReturn ==
    /\ pc = "generate" /\ bar_index = length_bars
    /\ pc' = "done"
    /\ UNCHANGED << Config, Standalone, Session, bar_index, hints, iterations, proposal,
                    critic_report, processed_events, validation, corrected_events,
                    musician_calls, critic_hints, llm_response, proposal2 >>

Init ==
    /\ constraints = default_8bit
    /\ use_llm \in BOOLEAN
    /\ resolution = [ steps_per_beat |-> 4, beats_per_bar |-> 4 ]
    /\ key = "C"
    /\ score_tracks = << >>
    /\ length_bars = 0 /\ num_variants = 0
    /\ pc = "idle"
    /\ bar_index = 0 /\ hints = << >>
    /\ score_events = << >> /\ iterations = << >>
    /\ total_events = 0 /\ validation_passes = 0 /\ validation_failures = 0
    /\ proposal = Null /\ critic_report = Null /\ processed_events = Null
    /\ validation = Null /\ corrected_events = Null
    /\ musician_calls = << >> /\ critic_hints = << >>
    /\ llm_response = NoResponse /\ proposal2 = Null
    /\ StandaloneInit

Next ==
    \/ Compose
    \/ MusicianComposeWindow
    \/ ResearcherEvaluate
    \/ ApplyPassesAndValidate
    \/ Commit
    \/ AutoCorrect
    \/ CommitCorrected
    \/ RecordFailure
    \/ ComposeReturn

Spec == Init /\ [][Next]_vars

(***************************************************************************)
(* MusicianAgent.compose_window called directly, twice with the same       *)
(* arguments, on scores of several resolutions and keys.                   *)
(***************************************************************************)
GenResolutions ==
    { [ steps_per_beat |-> b, beats_per_bar |-> n ] : b \in { 1, 4 }, n \in { 1, 3, 4 } }
GenKeys == { "C", "Am" }

GenInit ==
    /\ constraints = default_8bit
    /\ use_llm \in BOOLEAN
    /\ resolution \in GenResolutions
    /\ key \in GenKeys
    /\ score_tracks = create_empty_tracks
    /\ length_bars = 0 /\ num_variants = 0
    /\ pc = "gen_idle"
    /\ bar_index = 0 /\ hints = << >>
    /\ score_events = << >> /\ iterations = << >>
    /\ total_events = 0 /\ validation_passes = 0 /\ validation_failures = 0
    /\ proposal = Null /\ critic_report = Null /\ processed_events = Null
    /\ validation = Null /\ corrected_events = Null
    /\ musician_calls = << >> /\ critic_hints = << >>
    /\ llm_response = NoResponse /\ proposal2 = Null
    /\ StandaloneInit

GenFrame == << constraints, use_llm, resolution, key, score_tracks, length_bars, hints, score_events,
               iterations, total_events, validation_passes, validation_failures,
               critic_report, processed_events, validation, corrected_events,
               musician_calls, critic_hints, Standalone >>

\* musician.compose_window(score, bar_index, hints, num_variants)
GenCall ==
    /\ pc = "gen_idle"
    /\ bar_index' \in 0..(MaxBars - 1)
    /\ num_variants' \in 0..MaxVariants
    /\ \E response \in (IF use_llm THEN LLMResponses(Window(bar_index', resolution))
                        ELSE { NoResponse }),
          tape \in RandomTapes :
         LET result == compose_window(bar_index', num_variants', response, tape)
         IN /\ llm_response' = response
            /\ IF result.raised
               THEN /\ pc' = "gen_raised" /\ proposal' = Null
               ELSE /\ pc' = "gen_first"
                    /\ proposal' = [ window |-> result.window, variants |-> result.variants ]
    /\ UNCHANGED << GenFrame, proposal2 >>

\* the same call again; the external generator answers the same
GenCallAgain ==
    /\ pc = "gen_first"
    /\ \E tape \in RandomTapes :
         LET result == compose_window(bar_index, num_variants, llm_response, tape)
         IN proposal2' = [ window |-> result.window, variants |-> result.variants ]
    /\ pc' = "gen_second"
    /\ UNCHANGED << GenFrame, bar_index, num_variants, llm_response, proposal >>

\* the call of the next iteration of compose: bar_index + 1 on the same score
GenCallNext ==
    /\ pc = "gen_first"
    /\ \E response \in (IF use_llm THEN LLMResponses(Window(bar_index + 1, resolution))
                        ELSE { NoResponse }),
          tape \in RandomTapes :
         LET result == compose_window(bar_index + 1, num_variants, response, tape)
         IN /\ llm_response' = response
            /\ IF result.raised
               THEN /\ pc' = "gen_raised" /\ proposal2' = Null
               ELSE /\ pc' = "gen_next"
                    /\ proposal2' = [ window |-> result.window,
                                      variants |-> result.variants ]
    /\ UNCHANGED << GenFrame, bar_index, num_variants, proposal >>

GenNext == GenCall \/ GenCallAgain \/ GenCallNext

GenSpec == GenInit /\ [][GenNext]_vars


(***************************************************************************)
(* The evaluator, the validator and the post-processor called directly on  *)
(* event lists, proposals and scores drawn from small pools.               *)
(***************************************************************************)
MaxEvents == 3

FnConstraints ==
    { default_8bit,
      [ default_8bit EXCEPT !.required_tracks = << "pulse1", "fx" >> ],
      [ default_8bit EXCEPT !.max_events_per_bar = 2 ] }

\* events around the 16-step bars 0 and 1: overlapping, chained, with equal
\* starts, out of range, off the velocity levels, on a non-monophonic track
FnEvents ==
    { NoteEvent("pulse1", 60, 100, 0, 8),
      NoteEvent("pulse1", 62, 100, 4, 8),
      NoteEvent("pulse1", 64, 100, 6, 8),
      NoteEvent("pulse1", 60, 100, 0, 2),
      NoteEvent("pulse1", 120, 100, 8, 2),
      NoteEvent("pulse1", 60, 90, 12, 2),
      NoteEvent("pulse1", 60, 100, 16, 2),
      NoteEvent("fx", 60, 100, 0, 8),
      NoteEvent("fx", 120, 100, 4, 8),
      NoteEvent("triangle", 36, 100, 0, 4) }

FnEventLists == UNION { [ 1..n -> FnEvents ] : n \in 0..MaxEvents }

\* n events on n successive steps of the window
DenseEvents(window, n) ==
    [ i \in 1..n |-> NoteEvent("noise", 42, 64, window.start_step + i - 1, 1) ]

FnDenseSizes == { 11, 14 }

\* the event lists of the variants of an evaluated proposal
FnVariantEvents(window) ==
    { << >>,
      << NoteEvent("pulse1", 60, 100, window.start_step, 4) >>,
      << NoteEvent("pulse1", 60, 100, window.start_step, 8),
         NoteEvent("pulse1", 62, 100, window.start_step + 4, 8) >>,
      << NoteEvent("pulse1", 120, 90, window.start_step, 4),
         NoteEvent("triangle", 36, 100, window.start_step + 4, 4) >>,
      << NoteEvent("fx", 60, 100, window.start_step, 8),
         NoteEvent("fx", 60, 100, window.start_step + 4, 8),
         NoteEvent("fx", 60, 100, window.start_step + 20, 8) >> }
    \cup { DenseEvents(window, n) : n \in FnDenseSizes }

FnProposals(window) ==
    { [ window   |-> window,
        variants |-> [ i \in 1..Len(es) |-> Variant("v" \o ToString(i), << >>, es[i]) ] ] :
      es \in UNION { [ 1..n -> FnVariantEvents(window) ] : n \in 1..(MaxVariants + 1) } }

\* rankings lists handed to get_best_variant_id, in any order
FnScores == { 42 * Milli, 77 * Milli + 500 }

FnRankings ==
    { [ i \in 1..Len(rs) |->
          [ variant_id |-> "v" \o ToString(i), score |-> rs[i][1],
            passed_hard_constraints |-> rs[i][2] ] ] :
      rs \in UNION { [ 1..n -> FnScores \X BOOLEAN ] : n \in 1..(MaxVariants + 1) } }

\* the track ids a validated score may define
FnTrackLists ==
    { << >>, << "pulse1" >>, << "pulse1", "fx" >>, create_empty_tracks }

FnInit ==
    /\ constraints \in FnConstraints
    /\ use_llm = FALSE
    /\ resolution = [ steps_per_beat |-> 4, beats_per_bar |-> 4 ]
    /\ key = "C"
    /\ score_tracks = create_empty_tracks
    /\ length_bars = 0 /\ num_variants = 0
    /\ pc = "fn_idle"
    /\ bar_index = 0 /\ hints = << >>
    /\ score_events = << >> /\ iterations = << >>
    /\ total_events = 0 /\ validation_passes = 0 /\ validation_failures = 0
    /\ proposal = Null /\ critic_report = Null /\ processed_events = Null
    /\ validation = Null /\ corrected_events = Null
    /\ musician_calls = << >> /\ critic_hints = << >>
    /\ llm_response = NoResponse /\ proposal2 = Null
    /\ StandaloneInit

FnFrame == << constraints, use_llm, resolution, key, length_bars, num_variants,
              bar_index, hints, iterations, total_events, validation_passes,
              validation_failures, corrected_events, musician_calls, critic_hints,
              llm_response, proposal2, Standalone >>

\* researcher.evaluate_proposal(proposal)
FnEvaluate ==
    /\ pc = "fn_idle"
    /\ \E bar \in 0..(MaxBars - 1) :
         \E p \in FnProposals(Window(bar, resolution)) :
            /\ proposal' = p
            /\ critic_report' = evaluate_proposal(p)
    /\ pc' = "fn_evaluated"
    /\ UNCHANGED << FnFrame, score_tracks, score_events, processed_events, validation >>

\* report.get_best_variant_id() on a report with the given rankings
FnBest ==
    /\ pc = "fn_idle"
    /\ \E rankings \in FnRankings :
         critic_report' = [ window   |-> Window(0, resolution),
                            rankings |-> rankings,
                            metrics  |-> _aggregate_metrics(<< >>),
                            hints    |-> << >> ]
    /\ pc' = "fn_best"
    /\ UNCHANGED << FnFrame, score_tracks, score_events, proposal, processed_events,
                    validation >>

\* pm.validate_variant(variant, window.start_step, window.end_step)
FnValidateVariant ==
    /\ pc = "fn_idle"
    /\ \E bar \in 0..(MaxBars - 1), events \in FnEventLists :
         LET window == Window(bar, resolution)
         IN /\ proposal' = [ window   |-> window,
                             variants |-> << Variant("v1", << >>, events) >> ]
            /\ validation' = validate_variant(events, window.start_step, window.end_step)
    /\ pc' = "fn_validated"
    /\ UNCHANGED << FnFrame, score_tracks, score_events, critic_report,
                    processed_events >>

\* pm.validate_score(score)
FnValidateScore ==
    /\ pc = "fn_idle"
    /\ \E track_ids \in FnTrackLists, events \in FnEventLists :
         /\ score_tracks' = track_ids
         /\ score_events' = events
         /\ validation' = validate_score(track_ids, events, resolution)
    /\ pc' = "fn_score_validated"
    /\ UNCHANGED << FnFrame, proposal, critic_report, processed_events >>

\* orchestrator._resolve_overlaps(events)
FnResolveOverlaps ==
    /\ pc = "fn_idle"
    /\ \E events \in FnEventLists :
         /\ proposal' = [ window   |-> Window(0, resolution),
                          variants |-> << Variant("v1", << >>, events) >> ]
         /\ processed_events' = _resolve_overlaps(events)
    /\ pc' = "fn_resolved"
    /\ UNCHANGED << FnFrame, score_tracks, score_events, critic_report, validation >>

FnNext ==
    \/ FnEvaluate
    \/ FnBest
    \/ FnValidateVariant
    \/ FnValidateScore
    \/ FnResolveOverlaps

FnSpec == FnInit /\ [][FnNext]_vars

(***************************************************************************)
(* The post-processing of one variant called directly (steps 4 to 6 of     *)
(* _compose_bar), under velocity_levels lists in any order.                *)
(***************************************************************************)
\* the non-empty velocity_levels lists over the default levels, in any order
PassLevels ==
    { ls \in UNION { [ 1..n -> Range(default_8bit.velocity_levels) ] : n \in 1..3 } :
        \A i, j \in 1..Len(ls) : i # j => ls[i] # ls[j] }

\* events with velocities on, between and halfway between the levels, pitches
\* above and below the range of their track, equal starts, overlaps, a track
\* without a pitch range and a start in the next bar
PassEvents ==
    { NoteEvent("pulse1", 60, 82, 0, 8),
      NoteEvent("pulse1", 62, 100, 4, 8),
      NoteEvent("pulse1", 120, 90, 8, 2),
      NoteEvent("pulse1", 20, 127, 0, 2),
      NoteEvent("triangle", 120, 1, 4, 4),
      NoteEvent("fx", 60, 64, 0, 8),
      NoteEvent("pulse1", 60, 100, 16, 2) }

PassEventLists == UNION { [ 1..n -> PassEvents ] : n \in 0..MaxEvents }

PassInit ==
    /\ constraints \in { [ default_8bit EXCEPT !.velocity_levels = ls ] : ls \in PassLevels }
    /\ use_llm = FALSE
    /\ resolution = [ steps_per_beat |-> 4, beats_per_bar |-> 4 ]
    /\ key = "C"
    /\ score_tracks = create_empty_tracks
    /\ length_bars = 0 /\ num_variants = 0
    /\ pc = "pass_idle"
    /\ bar_index = 0 /\ hints = << >>
    /\ score_events = << >> /\ iterations = << >>
    /\ total_events = 0 /\ validation_passes = 0 /\ validation_failures = 0
    /\ proposal = Null /\ critic_report = Null /\ processed_events = Null
    /\ validation = Null /\ corrected_events = Null
    /\ musician_calls = << >> /\ critic_hints = << >>
    /\ llm_response = NoResponse /\ proposal2 = Null
    /\ StandaloneInit

PassFrame == << Config, Session, bar_index, hints, iterations, critic_report,
                musician_calls, critic_hints, llm_response, proposal2,
                self_messages, current_score, messages_to_send, content,
                llm_invocations, tool_runs, run_responses, run_result, tool_args,
                tool_result >>

\* pm.quantize_velocity(event.velocity)
PassQuantize ==
    /\ pc = "pass_idle"
    /\ \E v \in 1..127 :
         /\ event_velocity' = v
         /\ quantized_velocity' = quantize_velocity(v)
    /\ pc' = "quantized"
    /\ UNCHANGED << PassFrame, proposal, processed_events, validation, corrected_events >>

\* pm.quantize_velocity of the velocity just quantized
PassQuantizeAgain ==
    /\ pc = "quantized"
    /\ event_velocity' = quantized_velocity
    /\ quantized_velocity' = quantize_velocity(quantized_velocity)
    /\ pc' = "quantized_again"
    /\ UNCHANGED << PassFrame, proposal, processed_events, validation, corrected_events >>

\* steps 4 and 5: _apply_passes(variant.events), pm.validate_variant
PassApply ==
    /\ pc = "pass_idle"
    /\ \E bar \in 0..(MaxBars - 1), events \in PassEventLists :
         LET window == Window(bar, resolution)
             processed == _apply_passes(events)
         IN /\ proposal' = [ window   |-> window,
                             variants |-> << Variant("v1", << >>, events) >> ]
            /\ processed_events' = processed
            /\ validation' = validate_variant(processed, window.start_step,
                                              window.end_step)
    /\ pc' = "passes_applied"
    /\ UNCHANGED << PassFrame, event_velocity, quantized_velocity, corrected_events >>

\* the same two steps on the events that have just been post-processed
PassApplyAgain ==
    /\ pc = "passes_applied"
    /\ LET processed == _apply_passes(processed_events)
       IN /\ proposal' = [ window   |-> proposal.window,
                           variants |-> << Variant("v1", << >>, processed_events) >> ]
          /\ processed_events' = processed
          /\ validation' = validate_variant(processed, proposal.window.start_step,
                                            proposal.window.end_step)
    /\ pc' = "passes_applied_again"
    /\ UNCHANGED << PassFrame, event_velocity, quantized_velocity, corrected_events >>

\* step 6, else: self._auto_correct(processed_events, validation)
PassAutoCorrect ==
    /\ pc = "passes_applied"
    /\ ~validation.is_valid
    /\ corrected_events' = _auto_correct(processed_events, validation)
    /\ pc' = "auto_corrected"
    /\ UNCHANGED << PassFrame, event_velocity, quantized_velocity, proposal,
                    processed_events, validation >>

PassNext ==
    \/ PassQuantize
    \/ PassQuantizeAgain
    \/ PassApply
    \/ PassApplyAgain
    \/ PassAutoCorrect

PassSpec == PassInit /\ [][PassNext]_vars

(***************************************************************************)
(* ComposerAgent.run: one action per iteration of its loop; the LLM        *)
(* answers each invocation with a response from a small pool.              *)
(***************************************************************************)
ToolCall(id, name, args) == [ id |-> id, name |-> name, args |-> args ]

\* what the LLM may answer: one tool call, two tool calls (the second for a
\* tool that does not exist), two tool calls of which the second has
\* arguments its tool rejects, or a text: prose, prose and a score, an
\* object of another schema, a score followed by more braces
RunResponses ==
    { [ tool_calls |-> tcs, content |-> << >> ] :
        tcs \in { << ToolCall("call_1", "validate_score_v1", "accepted") >>,
                  << ToolCall("call_1", "validate_score_v1", "accepted"),
                     ToolCall("call_2", "tool_x", "accepted") >>,
                  << ToolCall("call_1", "validate_score_v1", "accepted"),
                     ToolCall("call_2", "score_v1_to_midi", "rejected") >> } }
    \cup { [ tool_calls |-> << >>, content |-> text ] :
             text \in { << "x" >>,
                        << "x", "{", "v", "}" >>,
                        << "{", "o", "}" >>,
                        << "{", "v", "}", "x", "{", "}" >> } }

\* a score extracted by an earlier run
EarlierScore ==
    [ schema_version |-> "score.v1", text |-> << "{", "v", ",", "n", "{", "}", "}" >> ]

\* the history left by an earlier run whose second tool call raised
EarlierMessages ==
    << HumanMessage(<< "q" >>),
       AIMessage(<< >>, << ToolCall("call_1", "validate_score_v1", "accepted"),
                           ToolCall("call_2", "score_v1_to_midi", "rejected") >>),
       ToolMessage(<< "{", "r", "}" >>, "call_1") >>

RunInit ==
    /\ constraints = default_8bit
    /\ use_llm = TRUE
    /\ resolution = [ steps_per_beat |-> 4, beats_per_bar |-> 4 ]
    /\ key = "C"
    /\ score_tracks = << >>
    /\ length_bars = 0 /\ num_variants = 0
    /\ pc = "run_idle"
    /\ bar_index = 0 /\ hints = << >>
    /\ score_events = << >> /\ iterations = << >>
    /\ total_events = 0 /\ validation_passes = 0 /\ validation_failures = 0
    /\ proposal = Null /\ critic_report = Null /\ processed_events = Null
    /\ validation = Null /\ corrected_events = Null
    /\ musician_calls = << >> /\ critic_hints = << >>
    /\ llm_response = NoResponse /\ proposal2 = Null
    /\ event_velocity = 0 /\ quantized_velocity = 0
    /\ \E earlier \in { << NoScore, << >> >>, << EarlierScore, << >> >>,
                         << EarlierScore, EarlierMessages >> } :
         /\ current_score = earlier[1]
         /\ self_messages = earlier[2]
    /\ messages_to_send = << >> /\ content = << >>
    /\ llm_invocations = 0 /\ tool_runs = << >> /\ run_responses = << >>
    /\ run_result = NoResult
    /\ tool_args = Null /\ tool_result = Null

RunFrame == << Config, Session, bar_index, hints, iterations, proposal, critic_report,
               processed_events, validation, corrected_events, musician_calls,
               critic_hints, llm_response, proposal2, event_velocity,
               quantized_velocity, tool_args, tool_result >>

\* run(query): self.messages.append(HumanMessage(content=query))
RunStart ==
    /\ pc = "run_idle"
    /\ self_messages' = Append(self_messages, HumanMessage(<< "q" >>))
    /\ pc' = "run_loop"
    /\ UNCHANGED << RunFrame, current_score, messages_to_send, content,
                    llm_invocations, tool_runs, run_responses, run_result >>

\* one iteration of `for _ in range(max_iterations)`
RunIteration ==
    /\ pc = "run_loop"
    /\ llm_invocations < max_iterations
    /\ messages_to_send' = _get_valid_messages(self_messages)
    /\ llm_invocations' = llm_invocations + 1
    /\ \E response \in RunResponses :
         /\ run_responses' = Append(run_responses, response)
         /\ IF response.tool_calls # << >>
            THEN LET loop == ToolCallLoop(response.tool_calls, 1)
                 IN /\ self_messages' =
                          Append(self_messages,
                                 AIMessage(response.content, response.tool_calls))
                          \o loop.appended
                    /\ tool_runs' = tool_runs \o loop.executed
                    /\ IF loop.raised
                       THEN /\ pc' = "run_raised"
                            /\ run_result' = [ kind |-> "raised", text |-> << >> ]
                       ELSE /\ pc' = "run_loop"
                            /\ run_result' = run_result
                    /\ UNCHANGED << content, current_score >>
            ELSE LET extracted == _try_extract_score(response.content, current_score)
                 IN /\ content' = response.content
                    /\ current_score' = extracted.current_score
                    /\ tool_runs' = tool_runs
                    /\ IF /\ extracted.current_score = NoScore
                          /\ \/ response.content = << >>
                             \/ "{" \notin Range(response.content)
                       THEN /\ self_messages' =
                                 Append(self_messages, HumanMessage(<< "g" >>))
                            /\ pc' = "run_loop"
                            /\ run_result' = run_result
                       ELSE /\ self_messages' =
                                 Append(self_messages, AIMessage(response.content, << >>))
                            /\ pc' = "run_returned"
                            /\ run_result' = [ kind |-> "returned",
                                               text |-> response.content ]
    /\ UNCHANGED RunFrame

\* the for loop is exhausted
RunLimit ==
    /\ pc = "run_loop"
    /\ llm_invocations >= max_iterations
    /\ run_result' = [ kind |-> "returned", text |-> << IterationLimitError >> ]
    /\ pc' = "run_returned"
    /\ UNCHANGED << RunFrame, self_messages, current_score, messages_to_send, content,
                    llm_invocations, tool_runs, run_responses >>

RunNext ==
    \/ RunStart
    \/ RunIteration
    \/ RunLimit

RunSpec == RunInit /\ [][RunNext]_vars

(***************************************************************************)
(* The helpers of the ComposerAgent and the validation tool called         *)
(* directly on pooled inputs.                                              *)
(***************************************************************************)
MaxMessages == 4
MaxTokens == 5

\* the messages a stored history is made of: a query, an answer, AIMessages
\* with one tool call, with two, and with a tool call that has no id, and
\* the tool results of the two call ids
HelperMessages ==
    { HumanMessage(<< "q" >>),
      AIMessage(<< "x" >>, << >>),
      AIMessage(<< >>, << ToolCall("call_1", "validate_score_v1", "accepted") >>),
      AIMessage(<< >>, << ToolCall("call_1", "validate_score_v1", "accepted"),
                          ToolCall("call_2", "score_v1_to_midi", "rejected") >>),
      AIMessage(<< >>, << ToolCall("", "validate_score_v1", "accepted") >>),
      ToolMessage(<< "{", "r", "}" >>, "call_1"),
      ToolMessage(<< "{", "r", "}" >>, "call_2") }

HelperHistories == UNION { [ 1..n -> HelperMessages ] : n \in 0..MaxMessages }

\* the texts handed to _try_extract_score
HelperTokens == { "{", "}", ",", "v", "o", "n", "x" }

HelperTexts == UNION { [ 1..n -> HelperTokens ] : n \in 0..MaxTokens }

\* events of a score of one bar: in order, out of the range of the track,
\* off the velocity levels, outside the MIDI velocities on a track without
\* a range, on a track the score does not define, after the last bar, and
\* before step 0 with no duration
HelperEvents ==
    { NoteEvent("pulse1", 60, 100, 0, 4),
      NoteEvent("pulse1", 120, 100, 0, 4),
      NoteEvent("pulse1", 60, 90, 4, 4),
      NoteEvent("fx", 60, 200, 8, 4),
      NoteEvent("ghost", 60, 100, 0, 4),
      NoteEvent("pulse1", 60, 64, 16, 4),
      NoteEvent("fx", 60, 64, -1, 0) }

HelperEventLists == UNION { [ 1..n -> HelperEvents ] : n \in 0..MaxEvents }

HelperScore(fields, metadata_keys, events) ==
    [ fields     |-> fields,
      metadata   |-> [ fields |-> metadata_keys, length_bars |-> 1 ],
      resolution |-> [ steps_per_beat |-> 4, beats_per_bar |-> 4 ],
      tracks     |-> << [ id |-> "pulse1", monophonic |-> TRUE ],
                        [ id |-> "fx", monophonic |-> FALSE ] >>,
      events     |-> events ]

\* complete scores, scores whose metadata has no key, and scores with one
\* top-level field missing
HelperScores ==
    { HelperScore(Range(required_fields), keys, events) :
        keys \in { Range(metadata_fields), Range(metadata_fields) \ { "key" } },
        events \in HelperEventLists }
    \cup { HelperScore(Range(required_fields) \ { f }, Range(metadata_fields),
                       << NoteEvent("pulse1", 60, 100, 0, 4) >>) :
             f \in Range(required_fields) }

\* constraints_json: None, the default constraints, the default constraints
\* with pulse1 and fx required, and without velocity levels
HelperConstraints ==
    { [ given |-> FALSE, hard |-> default_8bit ],
      [ given |-> TRUE, hard |-> default_8bit ],
      [ given |-> TRUE,
        hard  |-> [ default_8bit EXCEPT !.required_tracks = << "pulse1", "fx" >> ] ],
      [ given |-> TRUE,
        hard  |-> [ default_8bit EXCEPT !.required_tracks = << "pulse1" >>,
                                        !.velocity_levels = << >> ] ] }

HelperInit ==
    /\ constraints = default_8bit
    /\ use_llm = TRUE
    /\ resolution = [ steps_per_beat |-> 4, beats_per_bar |-> 4 ]
    /\ key = "C"
    /\ score_tracks = << >>
    /\ length_bars = 0 /\ num_variants = 0
    /\ pc = "helper_idle"
    /\ bar_index = 0 /\ hints = << >>
    /\ score_events = << >> /\ iterations = << >>
    /\ total_events = 0 /\ validation_passes = 0 /\ validation_failures = 0
    /\ proposal = Null /\ critic_report = Null /\ processed_events = Null
    /\ validation = Null /\ corrected_events = Null
    /\ musician_calls = << >> /\ critic_hints = << >>
    /\ llm_response = NoResponse /\ proposal2 = Null
    /\ event_velocity = 0 /\ quantized_velocity = 0
    /\ self_messages = << >>
    /\ current_score \in { NoScore, EarlierScore }
    /\ messages_to_send = << >> /\ content = << >>
    /\ llm_invocations = 0 /\ tool_runs = << >> /\ run_responses = << >>
    /\ run_result = NoResult
    /\ tool_args = Null /\ tool_result = Null

HelperFrame == << Config, Session, bar_index, hints, iterations, proposal,
                  critic_report, processed_events, validation, corrected_events,
                  musician_calls, critic_hints, llm_response, proposal2,
                  event_velocity, quantized_velocity, llm_invocations,
                  run_responses >>

\* an agent whose stored history is any list of messages
HelperStoreHistory ==
    /\ pc = "helper_idle"
    /\ self_messages' \in HelperHistories
    /\ pc' = "history_stored"
    /\ UNCHANGED << HelperFrame, tool_runs, current_score, messages_to_send, content, run_result,
                    tool_args, tool_result >>

\* self._get_valid_messages()
HelperGetValidMessages ==
    /\ pc = "history_stored"
    /\ messages_to_send' = _get_valid_messages(self_messages)
    /\ pc' = "valid_messages"
    /\ UNCHANGED << HelperFrame, tool_runs, self_messages, current_score, content, run_result,
                    tool_args, tool_result >>

\* self._try_extract_score(content)
HelperExtractScore ==
    /\ pc = "helper_idle"
    /\ \E text \in HelperTexts :
         LET extracted == _try_extract_score(text, current_score)
         IN /\ content' = text
            /\ current_score' = extracted.current_score
            /\ run_result' = [ kind |-> IF extracted.raised THEN "raised" ELSE "returned",
                               text |-> << >> ]
    /\ pc' = "extracted"
    /\ UNCHANGED << HelperFrame, tool_runs, self_messages, messages_to_send, tool_args,
                    tool_result >>

\* ValidateScoreTool._run: validate_score_v1(score_json, constraints_json, strict)
HelperValidateScore ==
    /\ pc = "helper_idle"
    /\ \E score_json \in HelperScores, constraints_json \in HelperConstraints,
          strict \in BOOLEAN :
         /\ tool_args' = [ score_json |-> score_json,
                           constraints_json |-> constraints_json, strict |-> strict ]
         /\ tool_result' = validate_score_v1(score_json, constraints_json, strict)
    /\ pc' = "score_validated"
    /\ UNCHANGED << HelperFrame, tool_runs, self_messages, current_score, messages_to_send,
                    content, run_result >>

\* what the pipeline leaves alone
PipelineFrame == << HelperFrame, self_messages, current_score, messages_to_send,
                    content, run_result, tool_args >>

\* PipelineListenTool._run: score_v1_pipeline_listen up to the return after
\* step 1 (validate_score_v1)
PipelineValidate ==
    /\ pc = "helper_idle"
    /\ \E score_json \in HelperScores, constraints_json \in HelperConstraints,
          strict \in BOOLEAN :
         LET validation_ == validate_score_v1(score_json, constraints_json, strict)
         IN /\ tool_args' = [ score_json |-> score_json,
                              constraints_json |-> constraints_json, strict |-> strict ]
            /\ tool_result' = [ PipelineResult EXCEPT !.validation = Some_(validation_) ]
            /\ pc' = IF validation_.valid THEN "pipeline_midi" ELSE "pipeline_returned"
    /\ tool_runs' = << "validate_score_v1" >>
    /\ UNCHANGED << HelperFrame, self_messages, current_score, messages_to_send,
                    content, run_result >>

\* PipelineMidi going on to the WAV step whatever score_v1_to_midi returned
PipelineMidi_IgnoresFailure ==
    /\ pc = "pipeline_midi"
    /\ \E success \in BOOLEAN :
         tool_result' = [ tool_result EXCEPT !.midi = Some_(StepResult(success)) ]
    /\ pc' = "pipeline_wav"
    /\ tool_runs' = Append(tool_runs, "score_v1_to_midi")
    /\ UNCHANGED PipelineFrame

\* step 2: score_v1_to_midi writes the file or reports why it could not
PipelineMidi ==
    /\ pc = "pipeline_midi"
    /\ \E success \in BOOLEAN :
         /\ tool_result' = [ tool_result EXCEPT !.midi = Some_(StepResult(success)) ]
         /\ pc' = IF success THEN "pipeline_wav" ELSE "pipeline_returned"
    /\ tool_runs' = Append(tool_runs, "score_v1_to_midi")
    /\ UNCHANGED PipelineFrame

\* step 3: midi_to_wav_fluidsynth
PipelineWav ==
    /\ pc = "pipeline_wav"
    /\ \E success \in BOOLEAN :
         /\ tool_result' = [ tool_result EXCEPT !.wav = Some_(StepResult(success)) ]
         /\ pc' = IF success THEN "pipeline_play" ELSE "pipeline_returned"
    /\ tool_runs' = Append(tool_runs, "midi_to_wav_fluidsynth")
    /\ UNCHANGED PipelineFrame

\* step 4: play_audio; its success is the success of the pipeline
PipelinePlay ==
    /\ pc = "pipeline_play"
    /\ \E success \in BOOLEAN :
         tool_result' = [ tool_result EXCEPT !.playback = Some_(StepResult(success)),
                                             !.success = success ]
    /\ pc' = "pipeline_returned"
    /\ tool_runs' = Append(tool_runs, "play_audio")
    /\ UNCHANGED PipelineFrame

HelperNext ==
    \/ HelperStoreHistory
    \/ HelperGetValidMessages
    \/ HelperExtractScore
    \/ HelperValidateScore
    \/ PipelineValidate
    \/ PipelineMidi
    \/ PipelineWav
    \/ PipelinePlay

HelperSpec == HelperInit /\ [][HelperNext]_vars

(***************************************************************************)
(* Orchestrator.compose on a score of one bar, with an external generator  *)
(* that may also name its variants: two variants under one id, or a        *)
(* variant under the id the padding loop gives the next fallback variant.  *)
(***************************************************************************)
BarNamedVariants(window) ==
    { << [ id |-> "llm_v1", events |-> << first >> ], [ events |-> << LLMBase(window) >> ] >> :
        first \in { LLMEvent(window, "pulse1", 120, 0), LLMEvent(window, "pulse1", 60, 15),
                    LLMEvent(window, "pulse1", 60, -1) } }
    \cup { << [ id |-> "algo_v1", events |-> es ] >> :
             es \in { << LLMEvent(window, "pulse1", 120, 0) >>,
                      << LLMBase(window), LLMBase(window) >> } }
    \cup { << [ id |-> "first", events |-> << LLMBase(window), LLMBase(window) >> ],
              [ id |-> "first", events |-> << LLMBase(window) >> ] >> }

BarResponses(window) ==
    LLMResponses(window)
    \cup { [ kind |-> "json", variants |-> vs ] : vs \in BarNamedVariants(window) }

\* Orchestrator(constraints=...): the default constraints, or the same with
\* a cap of two events per bar
BarConstraints ==
    { default_8bit, [ default_8bit EXCEPT !.max_events_per_bar = 2 ] }

BarInit ==
    /\ constraints \in BarConstraints
    /\ use_llm \in BOOLEAN
    /\ resolution = [ steps_per_beat |-> 4, beats_per_bar |-> 4 ]
    /\ key = "C"
    /\ score_tracks = << >>
    /\ length_bars = 0 /\ num_variants = 0
    /\ pc = "idle"
    /\ bar_index = 0 /\ hints = << >>
    /\ score_events = << >> /\ iterations = << >>
    /\ total_events = 0 /\ validation_passes = 0 /\ validation_failures = 0
    /\ proposal = Null /\ critic_report = Null /\ processed_events = Null
    /\ validation = Null /\ corrected_events = Null
    /\ musician_calls = << >> /\ critic_hints = << >>
    /\ llm_response = NoResponse /\ proposal2 = Null
    /\ StandaloneInit

\* compose(length_bars = 1, num_variants)
BarCompose ==
    /\ pc = "idle"
    /\ length_bars' = 1
    /\ num_variants' \in 0..MaxVariants
    /\ score_tracks' = create_empty_tracks
    /\ score_events' = << >> /\ iterations' = << >>
    /\ total_events' = 0 /\ validation_passes' = 0 /\ validation_failures' = 0
    /\ hints' = << >> /\ bar_index' = 0
    /\ pc' = "generate"
    /\ UNCHANGED << constraints, use_llm, resolution, key, Standalone, proposal, critic_report,
                    processed_events, validation, corrected_events,
                    musician_calls, critic_hints, llm_response, proposal2 >>

\* _compose_bar step 1 with the generator answering from BarResponses
BarComposeWindow ==
    /\ pc = "generate" /\ bar_index < length_bars
    /\ \E response \in (IF use_llm THEN BarResponses(Window(bar_index, resolution))
                        ELSE { NoResponse }),
          tape \in RandomTapes :
         LET result == compose_window(bar_index, num_variants, response, tape)
         IN /\ llm_response' = response
            /\ IF result.raised
               THEN /\ pc' = "raised" /\ proposal' = Null
               ELSE /\ pc' = "evaluate"
                    /\ proposal' = [ window |-> result.window, variants |-> result.variants ]
    /\ musician_calls' = Append(musician_calls,
                                [ bar_index |-> bar_index, hints |-> hints,
                                  num_variants |-> num_variants,
                                  recorded |-> Len(iterations),
                                  decided |-> validation_passes + validation_failures ])
    /\ UNCHANGED << Config, Standalone, Session, bar_index, hints, iterations, critic_report,
                    processed_events, validation, corrected_events, critic_hints,
                    proposal2 >>

BarNext ==
    \/ BarCompose
    \/ BarComposeWindow
    \/ ResearcherEvaluate
    \/ ApplyPassesAndValidate
    \/ Commit
    \/ AutoCorrect
    \/ CommitCorrected
    \/ RecordFailure
    \/ ComposeReturn

BarSpec == BarInit /\ [][BarNext]_vars

(***************************************************************************)
(* Orchestrator.compose without the external generator, in two keys and    *)
(* with more outcomes of the random source: each scale degree, both        *)
(* octaves, each velocity level.                                           *)
(***************************************************************************)
AlgoTapes ==
    RandomTapes \cup { << 6, 1, 1 >>, << 4, 1, 2 >>, << 3, 0, 0 >>, << 5, 2, 4 >>,
                       << 2, 1, 0 >> }

AlgoInit ==
    /\ constraints = default_8bit
    /\ use_llm = FALSE
    /\ resolution = [ steps_per_beat |-> 4, beats_per_bar |-> 4 ]
    /\ key \in GenKeys
    /\ score_tracks = << >>
    /\ length_bars = 0 /\ num_variants = 0
    /\ pc = "idle"
    /\ bar_index = 0 /\ hints = << >>
    /\ score_events = << >> /\ iterations = << >>
    /\ total_events = 0 /\ validation_passes = 0 /\ validation_failures = 0
    /\ proposal = Null /\ critic_report = Null /\ processed_events = Null
    /\ validation = Null /\ corrected_events = Null
    /\ musician_calls = << >> /\ critic_hints = << >>
    /\ llm_response = NoResponse /\ proposal2 = Null
    /\ StandaloneInit

\* _compose_bar step 1 with self.llm = None
AlgoComposeWindow ==
    /\ pc = "generate" /\ bar_index < length_bars
    /\ \E tape \in AlgoTapes :
         LET result == compose_window(bar_index, num_variants, NoResponse, tape)
         IN IF result.raised
            THEN /\ pc' = "raised" /\ proposal' = Null
            ELSE /\ pc' = "evaluate"
                 /\ proposal' = [ window |-> result.window, variants |-> result.variants ]
    /\ musician_calls' = Append(musician_calls,
                                [ bar_index |-> bar_index, hints |-> hints,
                                  num_variants |-> num_variants,
                                  recorded |-> Len(iterations),
                                  decided |-> validation_passes + validation_failures ])
    /\ UNCHANGED << Config, Standalone, Session, bar_index, hints, iterations, critic_report,
                    processed_events, validation, corrected_events, critic_hints,
                    llm_response, proposal2 >>

AlgoNext ==
    \/ Compose
    \/ AlgoComposeWindow
    \/ ResearcherEvaluate
    \/ ApplyPassesAndValidate
    \/ Commit
    \/ ComposeReturn

AlgoSpec == AlgoInit /\ [][AlgoNext]_vars

(***************************************************************************)
(* Properties                                                              *)
(***************************************************************************)
IsPrefix(s, t) == Len(s) <= Len(t) /\ SubSeq(t, 1, Len(s)) = s

NoOverlapOnTrack(events, track_id) ==
    LET evs == SortByStart(by_track(events, track_id))
    IN \A i \in 1..(Len(evs) - 1) : end_step(evs[i]) <= evs[i + 1].start_step

\* C1: at every moment, on every monophonic track, no two events of the
\* committed score overlap in time, including events committed in different
\* windows.
C1_CommittedScoreMonophonic ==
    \A k \in 1..Len(constraints.monophonic_tracks) :
        NoOverlapOnTrack(score_events, constraints.monophonic_tracks[k])

\* C2: every event of the committed score whose track has a configured pitch
\* range has its pitch inside that range.
C2_CommittedPitchInRange ==
    \A i \in 1..Len(score_events) :
        LET e == score_events[i]
        IN e.track \in DOMAIN constraints.pitch_ranges =>
             /\ constraints.pitch_ranges[e.track].min <= e.pitch
             /\ e.pitch <= constraints.pitch_ranges[e.track].max

\* a bar whose selected variant had its pitch clamped by auto-correction has
\* been committed
C2_Witness ==
    /\ validation_passes >= 1
    /\ \E k \in 1..Len(iterations) : ~iterations[k].passed_validation
    /\ \E i \in 1..Len(score_events) :
         /\ score_events[i].track = "pulse1"
         /\ score_events[i].pitch = constraints.pitch_ranges["pulse1"].max

\* C3: bars are processed strictly in the order 0, 1, ..., length_bars - 1:
\* the i-th recorded iteration has bar_index i, the generator is asked for
\* bar k only once the k bars before it are decided and recorded, and a
\* finished run has recorded exactly length_bars iterations.
C3_BarsInOrder ==
    /\ \A i \in 1..Len(iterations) : iterations[i].bar_index = i - 1
    /\ \A j \in 1..Len(musician_calls) :
         /\ musician_calls[j].bar_index = j - 1
         /\ musician_calls[j].recorded = j - 1
         /\ musician_calls[j].decided = j - 1
    /\ Len(iterations) <= length_bars
    /\ Len(iterations) = validation_passes + validation_failures
    /\ pc = "done" => Len(iterations) = length_bars

C3_Witness ==
    /\ pc = "done"
    /\ length_bars = MaxBars
    /\ Len(musician_calls) = MaxBars
    /\ iterations[MaxBars].bar_index = MaxBars - 1

\* C4: the generator call for bar 0 receives no hints, and the call for bar
\* k + 1 receives exactly the hints the evaluator produced for bar k, whether
\* bar k was committed or failed.
C4_HintsThreaded ==
    \A j \in 1..Len(musician_calls) :
        IF j = 1 THEN musician_calls[j].hints = << >>
        ELSE /\ j - 1 <= Len(critic_hints)
             /\ musician_calls[j].hints = critic_hints[j - 1]
             /\ musician_calls[j].hints = iterations[j - 1].hints

\* bar 0 failed and its (non-empty) hints went into the call for bar 1
C4_Witness ==
    /\ Len(musician_calls) = 2
    /\ validation_failures = 1 /\ validation_passes = 0
    /\ musician_calls[2].hints # << >>
    /\ musician_calls[2].hints = critic_hints[1]

\* C5: when validation fails and auto-correction gives nothing, the window is
\* recorded as a failure: the score and total_events are unchanged,
\* validation_failures grows by one, validation_passes is unchanged, and the
\* run goes on with the next bar.
C5_FailedWindowChangesNothing ==
    [][ /\ (pc = "auto_correct" /\ ~_auto_correct(processed_events, validation).some)
            => pc' = "fail"
        /\ pc' = "fail" => ~validation'.is_valid
        /\ pc = "fail" =>
             /\ score_events' = score_events
             /\ total_events' = total_events
             /\ validation_failures' = validation_failures + 1
             /\ validation_passes' = validation_passes
             /\ Len(iterations') = Len(iterations) + 1
             /\ ~iterations'[Len(iterations')].passed_validation
             /\ iterations'[Len(iterations')].events_added = 0
             /\ bar_index' = bar_index + 1
             /\ pc' = "generate" ]_vars

\* a failed bar 0 followed by a committed bar 1
C5_Witness ==
    /\ Len(iterations) = 2
    /\ validation_failures = 1 /\ validation_passes = 1
    /\ ~iterations[1].passed_validation /\ iterations[1].events_added = 0
    /\ iterations[2].passed_validation
    /\ score_events # << >>

\* C6: the committed score changes only by the commit step, and a commit only
\* appends: the score before is a prefix of the score after.
C6_ScoreOnlyGrowsAtCommit ==
    [][ /\ IsPrefix(score_events, score_events')
        /\ pc \notin { "commit", "commit_corrected" } => score_events' = score_events
      ]_vars

\* two bars committed one after the other
C6_Witness ==
    /\ pc = "done"
    /\ Len(iterations) = 2
    /\ iterations[1].events_added > 0 /\ iterations[2].events_added > 0
    /\ Len(score_events) = iterations[1].events_added + iterations[2].events_added

\* C7: compose_window returns a proposal with exactly num_variants variants
\* for every num_variants >= 0, and never fails, with or without the external
\* generator.
C7_ExactlyNVariants ==
    /\ pc # "gen_raised"
    /\ pc \in { "gen_first", "gen_second" } => Len(proposal.variants) = num_variants

\* the external generator was asked and gave no usable answer: the call
\* failed, the answer held no JSON object, the JSON did not parse, or it held
\* no variant that could be built
LLMFailed(response) ==
    \/ response.kind \in { "raises", "no_json", "bad_json" }
    \/ response.kind = "json" /\ _compose_with_llm(response) = << >>

\* C8: any failure of the external generator never makes compose_window
\* fail: the fallback generator supplies the variants and the bar goes on to
\* evaluation.
C8_LLMFailureFallsBack ==
    (use_llm /\ LLMFailed(llm_response)) =>
        /\ pc # "raised"
        /\ pc = "evaluate" =>
             /\ Len(proposal.variants) = num_variants
             /\ \A i \in 1..Len(proposal.variants) :
                  proposal.variants[i].tags[1] = "algorithmic"

\* C9: every event of a fallback variant starts inside the window and ends
\* no later than the window's end.
C9_FallbackEventsInsideWindow ==
    pc \in { "gen_first", "gen_second" } =>
        \A i \in 1..Len(proposal.variants) :
            proposal.variants[i].tags[1] = "algorithmic" =>
                \A j \in 1..Len(proposal.variants[i].events) :
                    LET e == proposal.variants[i].events[j]
                    IN /\ proposal.window.start_step <= e.start_step
                       /\ e.start_step < proposal.window.end_step
                       /\ end_step(e) <= proposal.window.end_step

EventShape(e) ==
    [ track |-> e.track, start_step |-> e.start_step, dur_steps |-> e.dur_steps,
      pitch |-> IF e.track = "noise" THEN e.pitch ELSE 0,
      velocity |-> IF e.track \in { "noise", "triangle" } THEN e.velocity ELSE 0 ]

VariantShape(v) ==
    [ id |-> v.id, tags |-> v.tags,
      events |-> [ j \in 1..Len(v.events) |-> EventShape(v.events[j]) ] ]

ProposalShape(p) ==
    [ window |-> p.window,
      variants |-> [ i \in 1..Len(p.variants) |-> VariantShape(p.variants[i]) ] ]

C11_FallbackVariantsTrimmed ==
    pc \in { "gen_first", "gen_second" } =>
        \A i \in 1..Len(proposal.variants) :
            proposal.variants[i].tags[1] = "algorithmic" =>
                \A t \in { "pulse1", "triangle", "noise" } :
                    NoOverlapOnTrack(proposal.variants[i].events, t)

\* the position in the proposal of the variant a ranking is about
PositionOf(p, ranking) ==
    CHOOSE i \in 1..Len(p.variants) : p.variants[i].id = ranking.variant_id

\* C12: the rankings returned by evaluate_proposal are a permutation of the
\* proposal's variants, sorted by descending score, and variants of equal
\* score keep the relative order they have in the proposal.
C12_RankingsSortedStable ==
    pc = "fn_evaluated" =>
        LET rs == critic_report.rankings
            n  == Len(proposal.variants)
        IN /\ Len(rs) = n
           /\ { PositionOf(proposal, rs[k]) : k \in 1..n } = 1..n
           /\ \A k \in 1..n :
                rs[k] = VariantRanking(proposal.variants[PositionOf(proposal, rs[k])],
                                       proposal.window)
           /\ \A k, l \in 1..n :
                k < l => \/ rs[k].score > rs[l].score
                         \/ /\ rs[k].score = rs[l].score
                            /\ PositionOf(proposal, rs[k]) < PositionOf(proposal, rs[l])

\* three variants, the first scoring less than the other two, which tie:
\* ranked second, third, first
C12_Witness ==
    /\ pc = "fn_evaluated"
    /\ Len(critic_report.rankings) = 3
    /\ critic_report.rankings[1].variant_id = "v2"
    /\ critic_report.rankings[2].variant_id = "v3"
    /\ critic_report.rankings[3].variant_id = "v1"
    /\ critic_report.rankings[1].score = critic_report.rankings[2].score
    /\ critic_report.rankings[2].score > critic_report.rankings[3].score

\* C13: get_best_variant_id returns the id of the first ranking of highest
\* score among those that passed the hard constraints when there is one, and
\* otherwise of the first ranking of highest score among all.
C13_BestVariantId ==
    pc \in { "fn_best", "fn_evaluated" } =>
        LET rs     == critic_report.rankings
            passed == { i \in 1..Len(rs) : rs[i].passed_hard_constraints }
            cand   == IF passed # {} THEN passed ELSE 1..Len(rs)
            best   == { i \in cand : \A j \in cand : rs[i].score >= rs[j].score }
            first  == CHOOSE i \in best : \A j \in best : i <= j
        IN get_best_variant_id(critic_report) = rs[first].variant_id

\* the highest score did not pass, and two rankings that passed tie below it
C13_Witness ==
    /\ pc = "fn_best"
    /\ Len(critic_report.rankings) = 3
    /\ ~critic_report.rankings[1].passed_hard_constraints
    /\ critic_report.rankings[2].passed_hard_constraints
    /\ critic_report.rankings[3].passed_hard_constraints
    /\ critic_report.rankings[1].score > critic_report.rankings[2].score
    /\ critic_report.rankings[2].score = critic_report.rankings[3].score
    /\ get_best_variant_id(critic_report) = "v2"

InUnitInterval(a) == FracLeq(Frac(0, 1), a) /\ FracLeq(a, Frac(1, 1))

\* C14: for every variant and window, the evaluator's scalar score lies in
\* [0, 100] and its repetition, rhythm_entropy and style_compliance metrics
\* each lie in [0, 1].
C14_ScoreAndMetricsBounded ==
    pc = "fn_evaluated" =>
        \A i \in 1..Len(proposal.variants) :
            LET m == _calculate_metrics(proposal.variants[i], proposal.window)
                v == _calculate_score(m, proposal.variants[i])
            IN /\ 0 <= v /\ v <= 100 * Milli
               /\ InUnitInterval(m.repetition)
               /\ InUnitInterval(m.style_compliance)
               /\ 0 <= m.rhythm_entropy /\ m.rhythm_entropy <= Milli
               /\ m.rhythm_entropy_ulps <= 0

\* some variant has an event outside its track's pitch range
SomeRangeViolation(p) ==
    \E i \in 1..Len(p.variants) : \E j \in 1..Len(p.variants[i].events) :
        LET e == p.variants[i].events[j]
        IN /\ e.track \in DOMAIN constraints.pitch_ranges
           /\ (e.pitch < constraints.pitch_ranges[e.track].min
               \/ e.pitch > constraints.pitch_ranges[e.track].max)

Overlapping(a, b) ==
    a.start_step < end_step(b) /\ b.start_step < end_step(a)

\* two events of `events` on one monophonic track overlap
SomeOverlap(events) ==
    \E a, b \in 1..Len(events) :
        /\ a # b
        /\ events[a].track = events[b].track
        /\ events[a].track \in Range(constraints.monophonic_tracks)
        /\ Overlapping(events[a], events[b])

HintsWith(report, messages) ==
    SelectSeq(report.hints, LAMBDA h : h.message \in messages)

\* C15: evaluate_proposal emits one high-priority hint exactly when some
\* variant has a pitch-range violation and a second high-priority hint
\* exactly when some variant has a monophony overlap; a report holds at most
\* one density hint and at most one repetition hint.
C15_HintsFollowViolations ==
    pc = "fn_evaluated" =>
        LET high      == SelectSeq(critic_report.hints, LAMBDA h : h.priority = "high")
            range_msg == "Corregir " \o ToString(critic_report.metrics.range_violations)
                            \o " notas fuera de rango"
            poly_msg  == "Resolver " \o ToString(critic_report.metrics.polyphony_violations)
                            \o " overlaps"
            ranged    == SomeRangeViolation(proposal)
            overlap   == \E i \in 1..Len(proposal.variants) :
                            SomeOverlap(proposal.variants[i].events)
        IN /\ Len(HintsWith(critic_report, { range_msg })) = (IF ranged THEN 1 ELSE 0)
           /\ Len(HintsWith(critic_report, { poly_msg })) = (IF overlap THEN 1 ELSE 0)
           /\ Len(high) = (IF ranged THEN 1 ELSE 0) + (IF overlap THEN 1 ELSE 0)
           /\ \A k \in 1..Len(high) : high[k].message \in { range_msg, poly_msg }
           /\ Len(HintsWith(critic_report, { "Reducir densidad de eventos",
                                             "Considerar anadir mas eventos" })) <= 1
           /\ Len(HintsWith(critic_report, { "Anadir mas variedad melodica",
                                             "Considerar repetir algunos motivos" })) <= 1

\* a report with both high-priority hints, a density hint and a repetition
\* hint, where only one of two variants has each violation
C15_Witness ==
    /\ pc = "fn_evaluated"
    /\ Len(proposal.variants) >= 2
    /\ SomeRangeViolation(proposal)
    /\ \E i \in 1..Len(proposal.variants) : SomeOverlap(proposal.variants[i].events)
    /\ Len(SelectSeq(critic_report.hints, LAMBDA h : h.priority = "high")) = 2
    /\ Len(HintsWith(critic_report, { "Considerar anadir mas eventos" })) = 1
    /\ Len(HintsWith(critic_report, { "Considerar repetir algunos motivos" })) = 1

\* the events handed to the validator in the last call
ValidatedEvents ==
    IF pc = "fn_validated" THEN proposal.variants[1].events ELSE score_events

\* C16: for validate_variant and validate_score alike, is_valid is true
\* exactly when the violation list holds no hard violation, and a velocity
\* outside the configured levels is recorded as a soft violation.
C16_ValidIffNoHardViolation ==
    pc \in { "fn_validated", "fn_score_validated" } =>
        /\ validation.is_valid <=>
             \A k \in 1..Len(validation.violations) :
                 validation.violations[k].constraint_type # "hard"
        /\ \A i \in 1..Len(ValidatedEvents) :
             ValidatedEvents[i].velocity \notin Range(constraints.velocity_levels) =>
                 \E k \in 1..Len(validation.violations) :
                     /\ validation.violations[k].constraint_type = "soft"
                     /\ validation.violations[k].rule = "velocity_levels"

\* the violations of a result with the given rule
ViolationsOf(result, rule) ==
    SelectSeq(result.violations, LAMBDA v : v.rule = rule)

\* C17: validate_score reports exactly one hard required_tracks violation for
\* each required track absent from score.tracks and none for a track that is
\* present; with required tracks {A, B} and an event-free score defining only
\* A the result is exactly one hard required_tracks violation and is_valid is
\* false.
C17_RequiredTracks ==
    pc = "fn_score_validated" =>
        LET req == ViolationsOf(validation, "required_tracks")
        IN /\ \A k \in 1..Len(req) :
                /\ req[k].constraint_type = "hard"
                /\ req[k].track \in Range(constraints.required_tracks)
           /\ \A t \in Range(constraints.required_tracks) :
                Len(SelectSeq(req, LAMBDA v : v.track = t))
                  = (IF t \in Range(score_tracks) THEN 0 ELSE 1)
           /\ (Len(req) > 0 => ~validation.is_valid)
           /\ (score_events = << >> => Len(validation.violations) = Len(req))

\* required tracks pulse1 and fx, a score without events defining only pulse1
C17_Witness ==
    /\ pc = "fn_score_validated"
    /\ constraints.required_tracks = << "pulse1", "fx" >>
    /\ score_tracks = << "pulse1" >>
    /\ score_events = << >>
    /\ Len(validation.violations) = 1
    /\ validation.violations[1].rule = "required_tracks"
    /\ validation.violations[1].constraint_type = "hard"
    /\ validation.violations[1].track = "fx"
    /\ ~validation.is_valid

InWindow(e, window) ==
    window.start_step <= e.start_step /\ e.start_step < window.end_step

InPitchRange(e) ==
    e.track \in DOMAIN constraints.pitch_ranges =>
        /\ constraints.pitch_ranges[e.track].min <= e.pitch
        /\ e.pitch <= constraints.pitch_ranges[e.track].max

\* C18: validate_variant returns is_valid = true exactly when every event
\* starts inside the window, every event on a track with a pitch range has
\* its pitch inside it, and no two events overlap on a monophonic track;
\* window_bounds and pitch_range violations carry the index of the offending
\* event and monophonic violations carry their track.
C18_ValidateVariant ==
    pc = "fn_validated" =>
        LET events == proposal.variants[1].events
            window == proposal.window
        IN /\ validation.is_valid <=>
                /\ \A i \in 1..Len(events) : InWindow(events[i], window)
                /\ \A i \in 1..Len(events) : InPitchRange(events[i])
                /\ ~SomeOverlap(events)
           /\ \A k \in 1..Len(validation.violations) :
                LET v == validation.violations[k]
                IN /\ v.rule = "window_bounds" =>
                        /\ v.event_index \in 0..(Len(events) - 1)
                        /\ ~InWindow(events[v.event_index + 1], window)
                   /\ v.rule = "pitch_range" =>
                        /\ v.event_index \in 0..(Len(events) - 1)
                        /\ ~InPitchRange(events[v.event_index + 1])
                   /\ v.rule = "monophonic" =>
                        /\ v.track \in Range(constraints.monophonic_tracks)
                        /\ SomeOverlap(by_track(events, v.track))
           /\ \A i \in 1..Len(events) :
                /\ ~InWindow(events[i], window) =>
                     Len(SelectSeq(ViolationsOf(validation, "window_bounds"),
                                   LAMBDA v : v.event_index = i - 1)) = 1
                /\ ~InPitchRange(events[i]) =>
                     Len(SelectSeq(ViolationsOf(validation, "pitch_range"),
                                   LAMBDA v : v.event_index = i - 1)) = 1

\* a variant rejected for all three reasons at once
C18_Witness ==
    /\ pc = "fn_validated"
    /\ ~validation.is_valid
    /\ ViolationsOf(validation, "window_bounds") # << >>
    /\ ViolationsOf(validation, "pitch_range") # << >>
    /\ ViolationsOf(validation, "monophonic") # << >>

\* C19: the output of _resolve_overlaps holds no overlapping events on any
\* monophonic track.
C19_ResolvedWithoutOverlap ==
    pc = "fn_resolved" =>
        \A k \in 1..Len(constraints.monophonic_tracks) :
            NoOverlapOnTrack(processed_events, constraints.monophonic_tracks[k])

\* out[k] is in[m[k]] with the same track, pitch, velocity and start_step and
\* a duration that is not longer
SameButShorter(in, out, m) ==
    \A k \in 1..Len(out) :
        /\ out[k].track = in[m[k]].track
        /\ out[k].pitch = in[m[k]].pitch
        /\ out[k].velocity = in[m[k]].velocity
        /\ out[k].start_step = in[m[k]].start_step
        /\ out[k].dur_steps <= in[m[k]].dur_steps

\* the events of the tracks that are not monophonic come out as they went in
OtherTracksIdentical(in, out) ==
    \A t \in { in[i].track : i \in 1..Len(in) } \cup { out[i].track : i \in 1..Len(out) } :
        t \notin Range(constraints.monophonic_tracks) => by_track(out, t) = by_track(in, t)

\* in[j] is the later event of an overlapping pair with in[i] on a
\* monophonic track
LaterOfPair(in, i, j) ==
    /\ i # j
    /\ in[i].track = in[j].track
    /\ in[i].track \in Range(constraints.monophonic_tracks)
    /\ \/ in[i].start_step < in[j].start_step
       \/ in[i].start_step = in[j].start_step /\ i < j
    /\ in[j].start_step < end_step(in[i])

\* the starts of the events of `in` that begin inside event e, after its start
StartsInside(in, e) ==
    { in[j].start_step : j \in { j \in 1..Len(in) :
                                   /\ in[j].track = e.track
                                   /\ e.start_step < in[j].start_step
                                   /\ in[j].start_step < end_step(e) } }

C21_QuantizeNearestLower ==
    pc = "quantized" =>
        LET levels == Range(constraints.velocity_levels)
        IN /\ quantized_velocity \in levels
           /\ \A l \in levels :
                Abs(quantized_velocity - event_velocity) <= Abs(l - event_velocity)
           /\ \A l \in levels :
                Abs(l - event_velocity) = Abs(quantized_velocity - event_velocity)
                    => quantized_velocity <= l

\* C22: quantizing a quantized velocity returns it, and applying the passes
\* to post-processed events leaves every velocity as it is.
C22_QuantizeIdempotent ==
    /\ pc = "quantized_again" => quantized_velocity = event_velocity
    /\ pc = "passes_applied_again" =>
         LET once  == proposal.variants[1].events
             twice == processed_events
         IN /\ Len(twice) = Len(once)
            /\ \A i \in 1..Len(once) : twice[i].velocity = once[i].velocity

\* a velocity off the levels was quantized and quantized again; events with
\* velocities off the levels went through the passes twice
C22_Witness ==
    \/ /\ pc = "quantized_again"
       /\ event_velocity = 100 /\ quantized_velocity = 100
       /\ constraints.velocity_levels = << 127, 100, 64 >>
    \/ /\ pc = "passes_applied_again"
       /\ Len(processed_events) = 3
       /\ \E i \in 1..3 : processed_events[i].velocity = 127
       /\ \E i \in 1..3 : processed_events[i].velocity = 64

\* the hard violations of the validation are all pitch_range violations, and
\* there is one
OnlyPitchRangeViolations(v) ==
    /\ hard_violations(v.violations) # << >>
    /\ \A k \in 1..Len(hard_violations(v.violations)) :
         hard_violations(v.violations)[k].rule = "pitch_range"

\* the pitch of the range [min, max] of the track nearest to the event's pitch
ClampedPitch(e) ==
    LET pr == constraints.pitch_ranges[e.track]
    IN IF e.pitch < pr.min THEN pr.min
       ELSE IF e.pitch > pr.max THEN pr.max ELSE e.pitch

\* C23: for post-processed events whose only hard violations are pitch_range
\* violations, _auto_correct returns the list with every flagged pitch
\* clamped to the nearest bound of its track's range and nothing else
\* changed, and validating the returned list reports no hard violation.
C23_AutoCorrectClamps ==
    (pc = "auto_corrected" /\ OnlyPitchRangeViolations(validation)) =>
        /\ corrected_events.some
        /\ Len(corrected_events.events) = Len(processed_events)
        /\ \A i \in 1..Len(processed_events) :
             LET e == processed_events[i]
                 c == corrected_events.events[i]
             IN IF ~InPitchRange(e)
                THEN /\ c.pitch = ClampedPitch(e)
                     /\ c.track = e.track /\ c.velocity = e.velocity
                     /\ c.start_step = e.start_step /\ c.dur_steps = e.dur_steps
                ELSE c = e
        /\ hard_violations(validate_variant(corrected_events.events,
                                            proposal.window.start_step,
                                            proposal.window.end_step).violations) = << >>
        /\ hard_violations(validate_variant(corrected_events.events,
                                            MinStart(processed_events),
                                            MaxStart(processed_events) + 16).violations) = << >>

\* the claim's example: pitch 120 on the triangle, whose range is [24, 60],
\* comes back as 60 next to an event that was in range
C23_Witness ==
    /\ pc = "auto_corrected"
    /\ OnlyPitchRangeViolations(validation)
    /\ corrected_events.some
    /\ \E i \in 1..Len(processed_events) :
         /\ processed_events[i].track = "triangle"
         /\ processed_events[i].pitch = 120
         /\ corrected_events.events[i].pitch = 60
    /\ \E i \in 1..Len(processed_events) :
         /\ processed_events[i].track = "pulse1"
         /\ corrected_events.events[i] = processed_events[i]

C25_UnknownTrackNeverCommitted ==
    \A i \in 1..Len(score_events) :
        \/ score_events[i].track \in DOMAIN constraints.pitch_ranges
        \/ score_events[i].track \in Range(score_tracks)

\* the response is a text without a '{' (an empty text included)
WithoutJSON(response) ==
    response.tool_calls = << >> /\ "{" \notin Range(response.content)

\* C26: run makes at most 10 LLM invocations: every step of its loop is one
\* more invocation or the end of the run, and after 10 invocations without
\* an accepted answer the next step returns the iteration limit error; that
\* error is returned exactly when there were 10 invocations and the tenth
\* response was a tool-call response or a text that was not accepted.
C26_RunBounded ==
    /\ [](/\ llm_invocations <= 10
          /\ Len(run_responses) = llm_invocations
          /\ pc = "run_returned" =>
               (run_result.text = << IterationLimitError >>
                  <=> /\ llm_invocations = 10
                      /\ \/ run_responses[10].tool_calls # << >>
                         \/ WithoutJSON(run_responses[10]) /\ current_score = NoScore))
    /\ [][/\ pc = "run_loop" =>
               \/ llm_invocations' = llm_invocations + 1
               \/ pc' = "run_returned"
          /\ (pc = "run_loop" /\ llm_invocations = 10) =>
               /\ pc' = "run_returned"
               /\ run_result'.text = << IterationLimitError >>
               /\ llm_invocations' = llm_invocations
          /\ pc \in { "run_returned", "run_raised" } => pc' = pc]_vars

\* ten responses, tool calls and texts without JSON among them, none of
\* them accepted
C26_Witness ==
    /\ pc = "run_returned"
    /\ run_result.text = << IterationLimitError >>
    /\ llm_invocations = 10
    /\ \E k \in 1..10 : run_responses[k].tool_calls # << >>
    /\ \E k \in 1..10 : WithoutJSON(run_responses[k])
    /\ \A k \in 1..10 : run_responses[k].tool_calls # << >> \/ WithoutJSON(run_responses[k])

\* the AIMessage of a tool-call response and its tool results, in order
ToolBlock(response) ==
    << AIMessage(response.content, response.tool_calls) >>
    \o [ k \in 1..Len(response.tool_calls) |->
           ToolMessage(_execute_tool(response.tool_calls[k]).text,
                       response.tool_calls[k].id) ]

RECURSIVE ToolBlocks(_, _)
ToolBlocks(responses, n) ==
    IF n = 0 THEN << >> ELSE ToolBlocks(responses, n - 1) \o ToolBlock(responses[n])

RECURSIVE RequestedCalls(_, _)
RequestedCalls(responses, n) ==
    IF n = 0 THEN << >>
    ELSE RequestedCalls(responses, n - 1) \o responses[n].tool_calls

IsSuffix(s, t) == Len(s) <= Len(t) /\ SubSeq(t, Len(t) - Len(s) + 1, Len(t)) = s

\* some stretch of the text is a JSON object with schema_version score.v1
ContainsScore(text) ==
    \E i, j \in 1..Len(text) :
        /\ i <= j
        /\ json_loads(SubSeq(text, i, j)).ok
        /\ json_loads(SubSeq(text, i, j)).schema_version = "score.v1"

\* the text from the first '{' to the last '}'
BraceSpan(text) ==
    LET opens  == { i \in 1..Len(text) : text[i] = "{" }
        closes == { i \in 1..Len(text) : text[i] = "}" }
    IN IF opens = {} \/ closes = {} THEN << >>
       ELSE SubSeq(text, CHOOSE i \in opens : \A j \in opens : i <= j,
                         CHOOSE i \in closes : \A j \in closes : i >= j)

\* the text from its first '{' to its last '}' is a score.v1 JSON object
SpansScore(text) ==
    /\ json_loads(BraceSpan(text)).ok
    /\ json_loads(BraceSpan(text)).schema_version = "score.v1"

\* run returned after n tool-call responses and one final text
ToolCallsThenFinal ==
    /\ pc = "run_returned"
    /\ run_responses # << >>
    /\ Len(run_responses) - 1 < 10
    /\ \A k \in 1..(Len(run_responses) - 1) : run_responses[k].tool_calls # << >>
    /\ run_responses[Len(run_responses)].tool_calls = << >>

\* the LLM was invoked n + 1 times, each requested tool call ran once, in
\* order, with its result in the history before the next invocation, and run
\* returned the final content
RanToolCallsInOrder ==
    LET n     == Len(run_responses) - 1
        final == run_responses[n + 1]
    IN /\ llm_invocations = n + 1
       /\ tool_runs = RequestedCalls(run_responses, n)
       /\ IsSuffix(<< HumanMessage(<< "q" >>) >> \o ToolBlocks(run_responses, n),
                   messages_to_send)
       /\ IsSuffix(<< HumanMessage(<< "q" >>) >> \o ToolBlocks(run_responses, n)
                     \o << AIMessage(final.content, << >>) >>,
                   self_messages)
       /\ run_result = [ kind |-> "returned", text |-> final.content ]

\* C27: after n < 10 tool-call responses and a final response whose content
\* contains a score.v1 JSON, the LLM was invoked n + 1 times, every
\* requested tool call ran once, in order, with one tool result per call in
\* the history before the next invocation, current_score is the returned
\* score and run returned the final content.
C27_ToolCallingFlow ==
    (ToolCallsThenFinal /\ ContainsScore(run_responses[Len(run_responses)].content)) =>
        /\ RanToolCallsInOrder
        /\ current_score.schema_version = "score.v1"
        /\ \E i, j \in 1..Len(content) :
             i <= j /\ current_score.text = SubSeq(content, i, j)

\* C27 (amended): the same, for a final response whose content from its
\* first '{' to its last '}' is a score.v1 JSON object; current_score is that
\* object.
C27_ToolCallingFlowSpan ==
    (ToolCallsThenFinal /\ SpansScore(run_responses[Len(run_responses)].content)) =>
        /\ RanToolCallsInOrder
        /\ current_score = [ schema_version |-> "score.v1",
                             text |-> BraceSpan(run_responses[Len(run_responses)].content) ]

\* two tool-call responses, one of them with two calls, then prose and a score
C27_Witness ==
    /\ ToolCallsThenFinal
    /\ Len(run_responses) = 3
    /\ Len(run_responses[1].tool_calls) = 2
    /\ Len(run_responses[2].tool_calls) = 1
    /\ content = << "x", "{", "v", "}" >>
    /\ current_score.text = << "{", "v", "}" >>
    /\ Len(tool_runs) = 3

IsToolCallMessage(m) == m.type = "ai" /\ m.tool_calls # << >>

\* a human message or an AI message without tool calls
IsPlainMessage(m) == m.type = "human" \/ (m.type = "ai" /\ m.tool_calls = << >>)

RECURSIVE IsSubsequence(_, _)
IsSubsequence(s, t) ==
    IF s = << >> THEN TRUE
    ELSE IF t = << >> THEN FALSE
    ELSE IF Head(s) = Head(t) THEN IsSubsequence(Tail(s), Tail(t))
    ELSE IsSubsequence(s, Tail(t))

\* the tool-result messages that directly follow position i of the list
ToolResultsAfter(msgs, i) ==
    { k \in (i + 1)..Len(msgs) : \A l \in (i + 1)..k : msgs[l].type = "tool" }

C29_ExtractScore ==
    /\ [](pc = "extracted" => run_result.kind = "returned")
    /\ [][pc' = "extracted" =>
            current_score' = IF SpansScore(content')
                             THEN [ schema_version |-> "score.v1",
                                    text |-> BraceSpan(content') ]
                             ELSE current_score]_vars

\* a score between prose replaced the earlier score
C29_Witness ==
    /\ pc = "extracted"
    /\ content = << "x", "{", "v", "}", "x" >>
    /\ current_score = [ schema_version |-> "score.v1", text |-> << "{", "v", "}" >> ]
    /\ run_result.kind = "returned"

\* the indices of the events whose velocity is not a configured level
OffLevel(args) ==
    { k \in 1..Len(args.score_json.events) :
        args.score_json.events[k].velocity
            \notin Range(args.constraints_json.hard.velocity_levels) }

LevelFinding(args, k) ==
    Finding("velocity_level", k - 1, args.score_json.events[k].track)

\* the score has all required fields and the constraints configure levels
LevelsConfigured(args) ==
    /\ Range(required_fields) \subseteq args.score_json.fields
    /\ args.constraints_json.given
    /\ args.constraints_json.hard.velocity_levels # << >>

\* valid iff no errors; a missing required field and a pitch outside the
\* constraint range of its track make the score invalid; with strict the
\* velocities off the levels are errors and there are no warnings
ValidateScoreCommon(args, result) ==
    /\ result.valid <=> result.errors = << >>
    /\ ~(Range(required_fields) \subseteq args.score_json.fields) =>
          ~result.valid /\ result.errors # << >>
    /\ (/\ args.constraints_json.given
        /\ \E k \in 1..Len(args.score_json.events) :
             LET e == args.score_json.events[k]
                 ranges == args.constraints_json.hard.pitch_ranges
             IN /\ e.track \in DOMAIN ranges
                /\ e.pitch < ranges[e.track].min \/ e.pitch > ranges[e.track].max)
          => ~result.valid
    /\ args.strict => result.warnings = << >>
    /\ (args.strict /\ LevelsConfigured(args)) =>
          /\ \A k \in OffLevel(args) : LevelFinding(args, k) \in Range(result.errors)
          /\ OffLevel(args) # {} => ~result.valid

IsVelocityRule(f) == f.rule \in { "velocity_level", "velocity_midi_range" }

\* C30: validate_score_v1 returns valid iff the errors list is empty; a
\* missing required field and a pitch outside the constraint range make the
\* score invalid; with strict every velocity off the levels is an error and
\* the warnings are empty; without strict such velocities appear only as
\* warnings and do not affect valid.
C30_ValidateScoreTool ==
    pc = "score_validated" =>
        /\ ValidateScoreCommon(tool_args, tool_result)
        /\ (~tool_args.strict /\ LevelsConfigured(tool_args)) =>
              /\ \A k \in OffLevel(tool_args) :
                   /\ LevelFinding(tool_args, k) \in Range(tool_result.warnings)
                   /\ \A f \in Range(tool_result.errors) :
                        ~(IsVelocityRule(f) /\ f.event_index = k - 1)
              /\ tool_result.valid <=>
                   \A f \in Range(tool_result.errors) : IsVelocityRule(f)

\* C30 (amended): the same, except that without strict only the velocities
\* in 1..127 that are off the levels appear only as warnings; the warnings
\* never reach the errors and valid follows the errors alone.
C30_ValidateScoreToolMidi ==
    pc = "score_validated" =>
        /\ ValidateScoreCommon(tool_args, tool_result)
        /\ (~tool_args.strict /\ LevelsConfigured(tool_args)) =>
              /\ \A k \in OffLevel(tool_args) :
                   /\ LevelFinding(tool_args, k) \in Range(tool_result.warnings)
                   /\ tool_args.score_json.events[k].velocity \in 1..127 =>
                        \A f \in Range(tool_result.errors) :
                            ~(IsVelocityRule(f) /\ f.event_index = k - 1)
              /\ \A f \in Range(tool_result.errors) : f.rule # "velocity_level"
              /\ tool_result.valid <=>
                   \A f \in Range(tool_result.errors) : f.rule = "velocity_level"

\* without strict, a velocity of 90 is a warning of a valid score
C30_Witness ==
    /\ pc = "score_validated"
    /\ ~tool_args.strict
    /\ LevelsConfigured(tool_args)
    /\ tool_args.score_json.events = << NoteEvent("pulse1", 60, 90, 4, 4) >>
    /\ tool_result.valid
    /\ tool_result.warnings = << Finding("velocity_level", 0, "pulse1") >>

\* the steps of a window
WindowSteps(window) == window.start_step..(window.end_step - 1)

\* C31: every window created by compose_window for bar index k starts at
\* k * steps_per_bar and is steps_per_bar long, so the windows of one score
\* have the same length and the windows of consecutive bars are contiguous
\* and disjoint.
C31_WindowsTileTheScore ==
    LET spb == resolution.steps_per_beat * resolution.beats_per_bar
    IN /\ pc \in { "gen_first", "gen_second", "gen_next" } =>
            /\ proposal.window.bar_index = bar_index
            /\ proposal.window.start_step = bar_index * spb
            /\ proposal.window.end_step - proposal.window.start_step = spb
       /\ pc = "gen_second" => proposal2.window = proposal.window
       /\ pc = "gen_next" =>
            /\ proposal2.window.bar_index = bar_index + 1
            /\ proposal2.window.start_step = (bar_index + 1) * spb
            /\ proposal2.window.end_step - proposal2.window.start_step
                 = proposal.window.end_step - proposal.window.start_step
            /\ proposal2.window.start_step = proposal.window.end_step
            /\ WindowSteps(proposal.window) \cap WindowSteps(proposal2.window) = {}

\* the windows of bars 1 and 2 of a score in 3/4 with 4 steps per beat
C31_Witness ==
    /\ pc = "gen_next"
    /\ resolution = [ steps_per_beat |-> 4, beats_per_bar |-> 3 ]
    /\ proposal.window = [ bar_index |-> 1, start_step |-> 12, end_step |-> 24 ]
    /\ proposal2.window = [ bar_index |-> 2, start_step |-> 24, end_step |-> 36 ]

PipelineOrder ==
    << "validate_score_v1", "score_v1_to_midi", "midi_to_wav_fluidsynth", "play_audio" >>

\* the entries of the result in the order of the steps, and whether the
\* step of an entry succeeded
PipelineEntries(result) == << result.validation, result.midi, result.wav, result.playback >>

EntrySucceeded(entries, i) ==
    /\ ~entries[i].none
    /\ IF i = 1 THEN entries[i].value.valid ELSE entries[i].value.success

\* C32: score_v1_pipeline_listen runs validation, MIDI, WAV and playback in
\* this order and stops at the first step that fails: the entries of the
\* steps after it stay None, no later step is run, and success is true only
\* if all four steps succeeded.
C32_PipelineStopsAtFirstFailure ==
    pc \in { "pipeline_midi", "pipeline_wav", "pipeline_play", "pipeline_returned" } =>
        LET n == Len(tool_runs)
            entries == PipelineEntries(tool_result)
        IN /\ n \in 1..4
           /\ tool_runs = SubSeq(PipelineOrder, 1, n)
           /\ \A i \in 1..4 : entries[i].none <=> i > n
           /\ \A i \in 1..(n - 1) : EntrySucceeded(entries, i)
           /\ pc # "pipeline_returned" => EntrySucceeded(entries, n)
           /\ (pc = "pipeline_returned" /\ n < 4) => ~EntrySucceeded(entries, n)
           /\ tool_result.success <=>
                (pc = "pipeline_returned" /\ \A i \in 1..4 : EntrySucceeded(entries, i))

\* the score was valid, the MIDI file could not be written: WAV and
\* playback were not run
C32_Witness ==
    /\ pc = "pipeline_returned"
    /\ tool_runs = << "validate_score_v1", "score_v1_to_midi" >>
    /\ tool_result.validation.value.valid
    /\ ~tool_result.midi.none /\ ~tool_result.midi.value.success
    /\ tool_result.wav.none /\ tool_result.playback.none
    /\ ~tool_result.success

\* C33: after every window of a compose run, validation_passes +
\* validation_failures is the number of windows processed so far and
\* total_events is the number of events in the score.
C33_CountersFollowWindows ==
    /\ pc \in { "generate", "done" } =>
         /\ validation_passes + validation_failures = bar_index
         /\ validation_passes + validation_failures = Len(iterations)
    /\ pc \notin { "idle", "generate", "done", "raised" } =>
         validation_passes + validation_failures = bar_index
    /\ total_events = Len(score_events)

\* two windows, one committed through auto-correction and one failed
C33_Witness ==
    /\ pc = "done"
    /\ bar_index = 2
    /\ validation_passes = 1 /\ validation_failures = 1
    /\ total_events = Len(score_events) /\ total_events > 0
    /\ ~iterations[1].passed_validation /\ ~iterations[2].passed_validation

\* the step that ends a window: the result is recorded and the loop moves on
WindowEnds == bar_index' = bar_index + 1

\* C34: for every window the recorded IterationResult agrees with what was
\* done to the score: events_added is the number of events appended to
\* score.events in that window and passed_validation is true exactly when the
\* window was committed; hence the events_added of all iterations sum to
\* total_events, also for windows committed through auto-correction.
C34_IterationResultAgrees ==
    /\ [][WindowEnds =>
            LET result == iterations'[Len(iterations')]
            IN /\ result.events_added = Len(score_events') - Len(score_events)
               /\ result.passed_validation <=>
                    validation_passes' = validation_passes + 1]_vars
    /\ [](pc \in { "generate", "done" } =>
            IntSum([ i \in 1..Len(iterations) |-> iterations[i].events_added ], 1)
                = total_events)

\* the events a step appended to score.events
Appended == SubSeq(score_events', Len(score_events) + 1, Len(score_events'))

\* C35: every event committed while processing bar k starts inside that
\* bar's window [k * steps_per_bar, (k + 1) * steps_per_bar), on both commit
\* paths: a variant with a window_bounds hard violation is never committed.
C35_CommittedInsideWindow ==
    /\ [][WindowEnds =>
            \A i \in 1..Len(Appended) :
                /\ bar_index * steps_per_bar(resolution) <= Appended[i].start_step
                /\ Appended[i].start_step < (bar_index + 1) * steps_per_bar(resolution)]_vars
    /\ [](pc \in { "commit", "commit_corrected" } =>
            ViolationsOf(validation, "window_bounds") = << >>)

\* some variant of the window's proposal was ranked as passing
SomeRankingPassed ==
    \E i \in 1..Len(critic_report.rankings) : critic_report.rankings[i].passed_hard_constraints

\* C36: if at least one variant of a window's proposal is ranked with
\* passed_hard_constraints, the window is committed without auto-correction:
\* the evaluator's hard-constraint check accepts a variant exactly when
\* validate_variant on the same window does, the selected variant is one that
\* passed, and post-processing never introduces a hard violation.
C36_PassedVariantCommitsDirectly ==
    pc \in { "commit", "auto_correct" } =>
        /\ \A i \in 1..Len(proposal.variants) :
             LET v == proposal.variants[i]
                 w == proposal.window
             IN /\ _check_hard_constraints(v, w)
                     <=> validate_variant(v.events, w.start_step, w.end_step).is_valid
                /\ _check_hard_constraints(v, w) =>
                     validate_variant(_apply_passes(v.events),
                                      w.start_step, w.end_step).is_valid
        /\ SomeRankingPassed =>
             /\ _check_hard_constraints(selected_variant(proposal, critic_report),
                                        proposal.window)
             /\ pc = "commit"

\* some committed event of the track starts in the bar
BarHasTrack(bar, track_id) ==
    \E i \in 1..Len(score_events) :
        /\ score_events[i].track = track_id
        /\ score_events[i].start_step \in WindowSteps(Window(bar, resolution))

\* C37: with the LLM disabled, the default 8-bit constraints, a 4/4 score
\* and num_variants >= 1, whatever the random choices of the generator, every
\* window of compose is committed: validation_failures stays 0,
\* validation_passes ends equal to length_bars, and every bar has at least
\* one event on each of pulse1, triangle and noise.
C37_FallbackAlwaysCommits ==
    (~use_llm /\ num_variants >= 1) =>
        /\ validation_failures = 0
        /\ pc \notin { "raised", "auto_correct", "commit_corrected", "fail" }
        /\ pc \in { "generate", "done" } =>
             /\ validation_passes = bar_index
             /\ \A bar \in 0..(bar_index - 1) :
                  \A track_id \in { "pulse1", "triangle", "noise" } :
                      BarHasTrack(bar, track_id)
        /\ pc = "done" => validation_passes = length_bars

\* two bars composed from two variants each, in A minor
C37_Witness ==
    /\ pc = "done" /\ ~use_llm /\ key = "Am"
    /\ length_bars = 2 /\ num_variants = 2
    /\ validation_passes = 2 /\ validation_failures = 0
    /\ BarHasTrack(1, "noise")

\* the committed events that start in the bar
EventsOfBar(bar) ==
    { i \in 1..Len(score_events) :
        score_events[i].start_step \div steps_per_bar(resolution) = bar }

\* C38: after any number of windows processed by compose, no bar of the
\* committed score holds more events than max_events_per_bar: a window whose
\* selected variant exceeds the cap is not committed.
C38_EventCapPerBar ==
    \A bar \in 0..bar_index :
        Cardinality(EventsOfBar(bar)) <= constraints.max_events_per_bar

\* the ranking whose variant_id get_best_variant_id returns
ChosenRanking(report) ==
    LET valid == SelectSeq(report.rankings, LAMBDA r : r.passed_hard_constraints)
    IN IF valid = << >> THEN MaxByScore(report.rankings, 1)
       ELSE MaxByScore(valid, 1)

\* C39: in every window the variant that is post-processed, validated and
\* committed is the variant whose ranking get_best_variant_id selected:
\* looking the chosen id up in the proposal yields the variant that produced
\* that ranking's score and passed_hard_constraints flag.
C39_SelectedVariantIsRanked ==
    pc \in { "commit", "auto_correct" } =>
        LET chosen == ChosenRanking(critic_report)
            looked_up == selected_variant(proposal, critic_report)
            produced == VariantRanking(looked_up, proposal.window)
        IN /\ chosen.variant_id = get_best_variant_id(critic_report)
           /\ looked_up.id = chosen.variant_id
           /\ produced.score = chosen.score
           /\ produced.passed_hard_constraints = chosen.passed_hard_constraints
           /\ processed_events = _apply_passes(looked_up.events)

\* C40: after any number of windows processed by compose, every event of
\* the committed score has a velocity that is one of the configured
\* velocity_levels and a duration of at least 1, whether its window was
\* committed directly or through auto-correction, whatever velocities the
\* generator proposed.
C40_CommittedVelocitiesQuantized ==
    \A i \in 1..Len(score_events) :
        /\ score_events[i].velocity \in Range(constraints.velocity_levels)
        /\ score_events[i].dur_steps >= 1

\* the first window was committed through auto-correction, and the second is
\* about to be committed directly from a proposal whose velocities were all
\* off the configured levels
C40_Witness ==
    /\ bar_index = 1 /\ pc = "commit"
    /\ validation_passes = 1 /\ validation_failures = 0
    /\ ~iterations[1].passed_validation
    /\ score_events # << >> /\ processed_events # << >>
    /\ \A i \in 1..Len(score_events) :
         score_events[i].velocity \in Range(constraints.velocity_levels)
    /\ \A i \in 1..Len(processed_events) :
         processed_events[i].velocity \in Range(constraints.velocity_levels)
    /\ \A i \in 1..Len(proposal.variants) :
         \A j \in 1..Len(proposal.variants[i].events) :
           proposal.variants[i].events[j].velocity
               \notin Range(constraints.velocity_levels)

====
